---- MODULE Spec2Model ----
(***************************************************************************)
(* A model of the associative-container library of the compiler:          *)
(* src/src/compiler/dataStructures.ts and its earlier revision            *)
(* src/unnamed/part_000.  The fallback ("shim") containers, the generic   *)
(* algorithms over them and the record utilities are modelled over a      *)
(* small JavaScript object heap.                                           *)
(***************************************************************************)
EXTENDS Integers, Sequences, FiniteSets, TLC

VARIABLES
    heap,   \* address -> object: the containers, arrays and records alive
    last,   \* the call that produced this state, with its arguments and result
    hist,   \* history: what has been put into the container so far
    usingNativeMaps,    \* the capability probe: the host has a Map class
    fullyFeaturedMaps   \* ... and that class has keys(), values() and entries()

vars == <<heap, last, hist, usingNativeMaps, fullyFeaturedMaps>>

\* The probe is made once; no operation changes it.
probe == <<usingNativeMaps, fullyFeaturedMaps>>

(***************************************************************************)
(* Bounds of the model.                                                    *)
(***************************************************************************)
MaxNumKey == 2      \* NumberMap keys are 0..MaxNumKey
MaxPairs == 1       \* length of the pairs list given to new NumberMap(pairs)

(***************************************************************************)
(* JavaScript values.  A value is a record of a tag and a payload; typeof, *)
(* === and truthiness are computed from it as the language defines them.   *)
(***************************************************************************)
Undefined == [tag |-> "undefined", val |-> 0]
Null == [tag |-> "null", val |-> 0]
NaN == [tag |-> "NaN", val |-> 0]
Num(n) == [tag |-> "number", val |-> n]
Bool(b) == [tag |-> "boolean", val |-> IF b THEN 1 ELSE 0]
Str(s) == [tag |-> "string", val |-> s]
Ref(a) == [tag |-> "object", val |-> a]
Fn(a) == [tag |-> "function", val |-> a]

\* Object.prototype itself lives at the pseudo address 0.
ObjectPrototypeRef == Ref(0)

Typeof(v) ==
    CASE v.tag = "NaN" -> "number"
      [] v.tag = "null" -> "object"
      [] OTHER -> v.tag

\* left === right
StrictEquals(a, b) == a.tag = b.tag /\ a.tag # "NaN" /\ a.val = b.val

\* ToBoolean(v), as used by `if (v)` and `!v`
Truthy(v) ==
    CASE v.tag \in {"undefined", "null", "NaN"} -> FALSE
      [] v.tag = "number" -> v.val # 0
      [] v.tag = "boolean" -> v.val = 1
      [] v.tag = "string" -> v.val # ""
      [] OTHER -> TRUE

(***************************************************************************)
(* Property keys.  A number used as a property key is converted to its     *)
(* decimal string; for-in yields strings.                                  *)
(***************************************************************************)
DecimalDigits == <<"0", "1", "2", "3", "4", "5", "6", "7", "8", "9">>

RECURSIVE NumberToString(_)
NumberToString(n) ==
    IF n < 0 THEN "-" \o NumberToString(0 - n)
    ELSE IF n < 10 THEN DecimalDigits[n + 1]
    ELSE NumberToString(n \div 10) \o DecimalDigits[(n % 10) + 1]

\* ToPropertyKey of a key value: strings stay, numbers are formatted.
ToPropertyKey(k) == IF k.tag = "string" THEN k.val ELSE NumberToString(k.val)

\* The array indices the model can form, as property keys.
IsArrayIndex(key) == \E n \in 0..MaxNumKey : NumberToString(n) = key
ArrayIndexOf(key) == CHOOSE n \in 0..MaxNumKey : NumberToString(n) = key

(***************************************************************************)
(* Plain objects: own properties in creation order, and a prototype that   *)
(* is null or Object.prototype.                                            *)
(***************************************************************************)
\* The members every object with Object.prototype inherits (not enumerable).
ObjectPrototypeProps ==
    <<[key |-> "toString", value |-> Fn(1)],
      [key |-> "constructor", value |-> Fn(2)],
      [key |-> "hasOwnProperty", value |-> Fn(3)]>>

SeqKeys(props) == {props[i].key : i \in 1..Len(props)}
PropAt(props, key) == props[CHOOSE i \in 1..Len(props) : props[i].key = key]

\* Object.create(proto)
createObject(proto) == [props |-> <<>>, proto |-> proto]

\* the literal {}
ObjectLiteral == createObject(ObjectPrototypeRef)

\* hasOwnProperty.call(obj, key)
HasOwnProperty(obj, key) == key \in SeqKeys(obj.props)

InheritedKeys(obj) ==
    IF obj.proto = ObjectPrototypeRef
    THEN SeqKeys(ObjectPrototypeProps) \cup {"__proto__"}
    ELSE {}

\* key in obj
In(key, obj) == HasOwnProperty(obj, key) \/ key \in InheritedKeys(obj)

\* obj[key]
GetProperty(obj, key) ==
    IF HasOwnProperty(obj, key) THEN PropAt(obj.props, key).value
    ELSE IF key \notin InheritedKeys(obj) THEN Undefined
    ELSE IF key = "__proto__" THEN obj.proto
    ELSE PropAt(ObjectPrototypeProps, key).value

\* obj[key] = value
PutProperty(obj, key, value) ==
    IF HasOwnProperty(obj, key)
    THEN [obj EXCEPT !.props =
            [i \in 1..Len(obj.props) |->
                IF obj.props[i].key = key
                THEN [key |-> key, value |-> value]
                ELSE obj.props[i]]]
    ELSE IF key = "__proto__" /\ key \in InheritedKeys(obj)
    THEN \* the inherited accessor: it changes the prototype, or does nothing
         IF value.tag \in {"object", "null"} THEN [obj EXCEPT !.proto = value] ELSE obj
    ELSE [obj EXCEPT !.props = Append(obj.props, [key |-> key, value |-> value])]

\* delete obj[key]
DeleteProperty(obj, key) ==
    [obj EXCEPT !.props = SelectSeq(obj.props, LAMBDA p : p.key # key)]

RECURSIVE IndexKeysFrom(_, _)
IndexKeysFrom(keys, n) ==
    IF n > MaxNumKey THEN <<>>
    ELSE (IF NumberToString(n) \in keys THEN <<NumberToString(n)>> ELSE <<>>)
         \o IndexKeysFrom(keys, n + 1)

\* for (const key in obj): array indices ascending, then the other own keys in
\* creation order; nothing inherited from Object.prototype is enumerable.
ForInKeys(obj) ==
    LET own == [i \in 1..Len(obj.props) |-> obj.props[i].key]
    IN  IndexKeysFrom(SeqKeys(obj.props), 0)
        \o SelectSeq(own, LAMBDA k : ~IsArrayIndex(k))

(***************************************************************************)
(* createDictionaryModeObject                                              *)
(***************************************************************************)
createDictionaryModeObjectFromLiteral ==
    LET map == ObjectLiteral
        hinted == PutProperty(map, "__", Undefined)
    IN  DeleteProperty(hinted, "__")

createDictionaryModeObject ==
    LET map == createObject(Null)
        hinted == PutProperty(map, "__", Undefined)
    IN  DeleteProperty(hinted, "__")

(***************************************************************************)
(* ShimStringMap (ShimMap in the earlier revision)                         *)
(***************************************************************************)
ShimStringMap_new == [class |-> "ShimStringMap", data |-> createDictionaryModeObject]

ShimStringMap_clear(this) == [this EXCEPT !.data = createDictionaryModeObject]

ShimStringMap_delete(this, key) == [this EXCEPT !.data = DeleteProperty(this.data, key)]

ShimStringMap_get(this, key) == GetProperty(this.data, key)

ShimStringMap_has(this, key) == In(key, this.data)

ShimStringMap_setFirstWins(this, key, value) ==
    IF In(key, this.data) THEN this
    ELSE [this EXCEPT !.data = PutProperty(this.data, key, value)]

ShimStringMap_set(this, key, value) ==
    [this EXCEPT !.data = PutProperty(this.data, key, value)]

\* The (value, key) pairs handed to the action, in order.
ShimStringMap_forEachSkipsUndefined(this) ==
    LET keys == SelectSeq(ForInKeys(this.data),
                          LAMBDA k : GetProperty(this.data, k) # Undefined)
    IN  [i \in 1..Len(keys) |->
            [value |-> GetProperty(this.data, keys[i]), key |-> Str(keys[i])]]

ShimStringMap_forEach(this) ==
    LET keys == ForInKeys(this.data)
    IN  [i \in 1..Len(keys) |->
            [value |-> GetProperty(this.data, keys[i]), key |-> Str(keys[i])]]

(***************************************************************************)
(* ShimNumberMap                                                           *)
(***************************************************************************)
RECURSIVE PutPairs(_, _)
PutPairs(data, pairs) ==
    IF pairs = <<>> THEN data
    ELSE PutPairs(PutProperty(data, NumberToString(Head(pairs)[1]), Head(pairs)[2]),
                  Tail(pairs))

ShimNumberMap_new(pairs) == [class |-> "ShimNumberMap", data |-> PutPairs(ObjectLiteral, pairs)]

ShimNumberMap_delete(this, key) ==
    [this EXCEPT !.data = DeleteProperty(this.data, NumberToString(key))]

ShimNumberMap_get(this, key) == GetProperty(this.data, NumberToString(key))

ShimNumberMap_has(this, key) == In(NumberToString(key), this.data)

ShimNumberMap_set(this, key, value) ==
    [this EXCEPT !.data = PutProperty(this.data, NumberToString(key), value)]

\* Debug.assert(typeof key === "number") on each for-in key: the keys whose
\* assertion fails.
ShimNumberMap_forEachFailedAsserts(this) ==
    LET keys == ForInKeys(this.data)
    IN  {i \in 1..Len(keys) : Typeof(Str(keys[i])) # "number"}

\* The (value, key) pairs handed to the action: the loop stops at the first
\* failed assertion.
ShimNumberMap_forEach(this) ==
    LET keys == ForInKeys(this.data)
        bad == ShimNumberMap_forEachFailedAsserts(this)
        n == IF bad = {} THEN Len(keys)
             ELSE (CHOOSE i \in bad : \A j \in bad : i <= j) - 1
    IN  [i \in 1..n |->
            [value |-> GetProperty(this.data, keys[i]), key |-> Str(keys[i])]]

(***************************************************************************)
(* The host's Map class, where there is one: entries in insertion order,   *)
(* keys compared by value; set on an existing key keeps its place.         *)
(***************************************************************************)
NativeMap_new == [class |-> "Map", entries |-> <<>>]

NativeMap_has(this, key) == \E i \in 1..Len(this.entries) : this.entries[i].key = key

NativeMap_get(this, key) ==
    IF NativeMap_has(this, key) THEN PropAt(this.entries, key).value ELSE Undefined

NativeMap_set(this, key, value) ==
    IF NativeMap_has(this, key)
    THEN [this EXCEPT !.entries =
            [i \in 1..Len(this.entries) |->
                IF this.entries[i].key = key
                THEN [key |-> key, value |-> value]
                ELSE this.entries[i]]]
    ELSE [this EXCEPT !.entries = Append(this.entries, [key |-> key, value |-> value])]

NativeMap_delete(this, key) ==
    [this EXCEPT !.entries = SelectSeq(this.entries, LAMBDA e : e.key # key)]

NativeMap_clear(this) == [this EXCEPT !.entries = <<>>]

\* entries(), and the (value, key) pairs forEach hands to its action
NativeMap_entries(this) == this.entries

(***************************************************************************)
(* The containers through their common contract (StringMap / NumberMap     *)
(* interfaces): keys are values, dispatched on the class of the object.    *)
(***************************************************************************)
Map_has(m, k) ==
    CASE m.class = "ShimStringMap" -> ShimStringMap_has(m, k.val)
      [] m.class = "ShimNumberMap" -> ShimNumberMap_has(m, k.val)
      [] m.class = "Map" -> NativeMap_has(m, k)

Map_get(m, k) ==
    CASE m.class = "ShimStringMap" -> ShimStringMap_get(m, k.val)
      [] m.class = "ShimNumberMap" -> ShimNumberMap_get(m, k.val)
      [] m.class = "Map" -> NativeMap_get(m, k)

Map_set(m, k, v) ==
    CASE m.class = "ShimStringMap" -> ShimStringMap_set(m, k.val, v)
      [] m.class = "ShimNumberMap" -> ShimNumberMap_set(m, k.val, v)
      [] m.class = "Map" -> NativeMap_set(m, k, v)

Map_delete(m, k) ==
    CASE m.class = "ShimStringMap" -> ShimStringMap_delete(m, k.val)
      [] m.class = "ShimNumberMap" -> ShimNumberMap_delete(m, k.val)
      [] m.class = "Map" -> NativeMap_delete(m, k)

Map_clear(m) ==
    CASE m.class = "ShimStringMap" -> ShimStringMap_clear(m)
      [] m.class = "Map" -> NativeMap_clear(m)

\* The entries forEach hands to its action, in order.
Map_forEach(m) ==
    CASE m.class = "ShimStringMap" -> ShimStringMap_forEach(m)
      [] m.class = "ShimNumberMap" -> ShimNumberMap_forEach(m)
      [] m.class = "Map" -> NativeMap_entries(m)

\* entries() and keys() of a fully-featured map
Map_entries(m) == NativeMap_entries(m)
Map_keys(m) == [i \in 1..Len(m.entries) |-> m.entries[i].key]

Map_forEachFails(m) ==
    m.class = "ShimNumberMap" /\ ShimNumberMap_forEachFailedAsserts(m) # {}

\* new StringMap<T>()
StringMap_new(native) == IF native THEN NativeMap_new ELSE ShimStringMap_new

(***************************************************************************)
(* Spec: one fallback StringMap or NumberMap, at address 1, under any      *)
(* sequence of calls of its methods.                                       *)
(***************************************************************************)
StringKeys == {"a", "toString", "__proto__"}
NumberKeys == 0..MaxNumKey
MapValues == {Undefined, Num(1), NaN}

KeysOf(m) ==
    IF m.class = "ShimStringMap" THEN {Str(k) : k \in StringKeys}
    ELSE {Num(n) : n \in NumberKeys}

\* The record of a call: what was called with what, what it returned, the
\* entries a traversal handed to its action, whether the key was present
\* before the call, and whether the call raised.
Call(op, key, value, ret, visited, had, failed) ==
    [op |-> op, key |-> key, value |-> value, ret |-> ret,
     visited |-> visited, had |-> had, failed |-> failed]

NoCall == Call("new", Undefined, Undefined, Undefined, <<>>, FALSE, FALSE)

RECURSIVE SeqsUpTo(_, _)
SeqsUpTo(S, n) ==
    IF n = 0 THEN {<<>>}
    ELSE SeqsUpTo(S, n - 1)
         \cup {Append(s, x) : s \in {t \in SeqsUpTo(S, n - 1) : Len(t) = n - 1}, x \in S}

Init ==
    /\ \E m \in {ShimStringMap_new}
             \cup {ShimNumberMap_new(pairs) :
                     pairs \in SeqsUpTo(NumberKeys \X MapValues, MaxPairs)} :
          heap = [a \in {1} |-> m]
    /\ last = NoCall
    /\ hist = {}
    /\ usingNativeMaps = FALSE
    /\ fullyFeaturedMaps = FALSE

Set(k, v) ==
    /\ heap' = [heap EXCEPT ![1] = Map_set(heap[1], k, v)]
    /\ last' = Call("set", k, v, Undefined, <<>>, Map_has(heap[1], k), FALSE)
    /\ UNCHANGED <<hist, probe>>

Delete(k) ==
    /\ heap' = [heap EXCEPT ![1] = Map_delete(heap[1], k)]
    /\ last' = Call("delete", k, Undefined, Undefined, <<>>, Map_has(heap[1], k), FALSE)
    /\ UNCHANGED <<hist, probe>>

Get(k) ==
    /\ last' = Call("get", k, Undefined, Map_get(heap[1], k), <<>>,
                    Map_has(heap[1], k), FALSE)
    /\ UNCHANGED <<heap, hist, probe>>

Has(k) ==
    /\ last' = Call("has", k, Undefined, Bool(Map_has(heap[1], k)), <<>>,
                    Map_has(heap[1], k), FALSE)
    /\ UNCHANGED <<heap, hist, probe>>

Clear ==
    /\ heap[1].class = "ShimStringMap"
    /\ heap' = [heap EXCEPT ![1] = ShimStringMap_clear(heap[1])]
    /\ last' = Call("clear", Undefined, Undefined, Undefined, <<>>, FALSE, FALSE)
    /\ UNCHANGED <<hist, probe>>

ForEach ==
    /\ last' = Call("forEach", Undefined, Undefined, Undefined,
                    Map_forEach(heap[1]), FALSE, Map_forEachFails(heap[1]))
    /\ UNCHANGED <<heap, hist, probe>>

Next ==
    \/ \E k \in KeysOf(heap[1]), v \in MapValues : Set(k, v)
    \/ \E k \in KeysOf(heap[1]) : Delete(k)
    \/ \E k \in KeysOf(heap[1]) : Get(k)
    \/ \E k \in KeysOf(heap[1]) : Has(k)
    \/ Clear
    \/ ForEach

Spec == Init /\ [][Next]_vars

(***************************************************************************)
(* C1: immediately after set(k, v), has(k) is true and get(k) returns v,   *)
(* also when k already had a value; immediately after delete(k), has(k) is *)
(* false and get(k) returns undefined.  Fallback StringMap and NumberMap.  *)
(***************************************************************************)
C1_SetThenGet_DeleteThenAbsent ==
    /\ last.op = "set" =>
          /\ Map_has(heap[1], last.key)
          /\ Map_get(heap[1], last.key) = last.value
    /\ last.op = "delete" =>
          /\ ~Map_has(heap[1], last.key)
          /\ Map_get(heap[1], last.key) = Undefined

\* a set that overwrote an entry of a two-entry map
C1_Witness ==
    /\ last.op = "set" /\ last.had
    /\ Len(heap[1].data.props) = 2
    /\ last.value = NaN

(***************************************************************************)
(* C2: no call of clear, delete, get, has, set or forEach raises an error  *)
(* or fails an assertion.                                                  *)
(***************************************************************************)
C2_NoCallFails == ~last.failed

(***************************************************************************)
(* ShimSet (the fallback StringSet of the earlier revision, with a size    *)
(* kept incrementally) and ShimStringSet (the later one, with isEmpty).    *)
(***************************************************************************)
True == Bool(TRUE)

ShimSet_new == [class |-> "ShimSet", data |-> createDictionaryModeObject, size |-> 0]

ShimSet_has(this, value) == In(value, this.data)

ShimSet_addAlwaysCounts(this, value) ==
    [this EXCEPT !.data = PutProperty(this.data, value, True), !.size = this.size + 1]

ShimSet_add(this, value) ==
    IF ~ShimSet_has(this, value)
    THEN [this EXCEPT !.data = PutProperty(this.data, value, True),
                      !.size = this.size + 1]
    ELSE this

ShimSet_deleteAlwaysCounts(this, value) ==
    [this EXCEPT !.data = DeleteProperty(this.data, value), !.size = this.size - 1]

ShimSet_deleteKeepsSize(this, value) ==
    [this EXCEPT !.data = DeleteProperty(this.data, value)]

ShimSet_delete(this, value) ==
    IF ShimSet_has(this, value)
    THEN [this EXCEPT !.data = DeleteProperty(this.data, value),
                      !.size = this.size - 1]
    ELSE this

\* The values handed to the action, in order.
ShimSet_forEach(this) == ForInKeys(this.data)

_setIsEmpty(set) == set.size = 0

ShimStringSet_new == [class |-> "ShimStringSet", data |-> createDictionaryModeObject]

ShimStringSet_add(this, value) == [this EXCEPT !.data = PutProperty(this.data, value, True)]

ShimStringSet_has(this, value) == In(value, this.data)

ShimStringSet_delete(this, value) == [this EXCEPT !.data = DeleteProperty(this.data, value)]

ShimStringSet_forEach(this) == ForInKeys(this.data)

\* for (const value in this.data) return false; return true
ShimStringSet_isEmpty(this) == ForInKeys(this.data) = <<>>

\* setIsEmpty without native sets
setIsEmpty(set) == ShimStringSet_isEmpty(set)

\* The StringSet contract, dispatched on the class of the object.
Set_add(s, v) == IF s.class = "ShimSet" THEN ShimSet_add(s, v) ELSE ShimStringSet_add(s, v)
Set_has(s, v) == IF s.class = "ShimSet" THEN ShimSet_has(s, v) ELSE ShimStringSet_has(s, v)
Set_delete(s, v) ==
    IF s.class = "ShimSet" THEN ShimSet_delete(s, v) ELSE ShimStringSet_delete(s, v)
Set_forEach(s) == IF s.class = "ShimSet" THEN ShimSet_forEach(s) ELSE ShimStringSet_forEach(s)
Set_isEmpty(s) == IF s.class = "ShimSet" THEN _setIsEmpty(s) ELSE setIsEmpty(s)

(***************************************************************************)
(* SpecSet: one fallback StringSet, at address 1, under any sequence of    *)
(* calls.  hist holds every value added so far.                            *)
(***************************************************************************)
SetValues == {"a", "b", "toString"}

Members(s) == {v \in SetValues : Set_has(s, v)}

InitSet ==
    /\ \E s \in {ShimSet_new, ShimStringSet_new} : heap = [a \in {1} |-> s]
    /\ last = NoCall
    /\ hist = {}
    /\ usingNativeMaps = FALSE
    /\ fullyFeaturedMaps = FALSE

SetAdd(v) ==
    /\ heap' = [heap EXCEPT ![1] = Set_add(heap[1], v)]
    /\ last' = Call("add", Str(v), Undefined, Undefined, <<>>, Set_has(heap[1], v), FALSE)
    /\ hist' = hist \cup {v}
    /\ UNCHANGED probe

SetDelete(v) ==
    /\ heap' = [heap EXCEPT ![1] = Set_delete(heap[1], v)]
    /\ last' = Call("delete", Str(v), Undefined, Undefined, <<>>, Set_has(heap[1], v), FALSE)
    /\ UNCHANGED <<hist, probe>>

SetHas(v) ==
    /\ last' = Call("has", Str(v), Undefined, Bool(Set_has(heap[1], v)), <<>>,
                    Set_has(heap[1], v), FALSE)
    /\ UNCHANGED <<heap, hist, probe>>

SetForEach ==
    /\ last' = Call("forEach", Undefined, Undefined, Undefined,
                    Set_forEach(heap[1]), FALSE, FALSE)
    /\ UNCHANGED <<heap, hist, probe>>

SetIsEmpty ==
    /\ last' = Call("isEmpty", Undefined, Undefined, Bool(Set_isEmpty(heap[1])), <<>>,
                    FALSE, FALSE)
    /\ UNCHANGED <<heap, hist, probe>>

NextSet ==
    \/ \E v \in SetValues : SetAdd(v)
    \/ \E v \in SetValues : SetDelete(v)
    \/ \E v \in SetValues : SetHas(v)
    \/ SetForEach
    \/ SetIsEmpty

SpecSet == InitSet /\ [][NextSet]_vars

(***************************************************************************)
(* C7: in every state of the fallback StringSet with a size (ShimSet),     *)
(* size is the number of distinct values v with has(v) and is not          *)
(* negative; a delete(v) step lowers size by exactly one when v was a      *)
(* member and leaves it unchanged when it was not.                         *)
(***************************************************************************)
C7_SizeCountsMembers ==
    [][heap'[1].class = "ShimSet" =>
          /\ heap[1].size = Cardinality(Members(heap[1]))
          /\ heap'[1].size = Cardinality(Members(heap'[1]))
          /\ heap'[1].size >= 0
          /\ last'.op = "delete" =>
                heap'[1].size = heap[1].size
                                - (IF Set_has(heap[1], last'.key.val) THEN 1 ELSE 0)]_vars

\* a delete of a member of a ShimSet to which two values had been added
C7_Witness ==
    /\ heap[1].class = "ShimSet"
    /\ last.op = "delete" /\ last.had
    /\ heap[1].size = 1
    /\ Cardinality(hist) = 2

(***************************************************************************)
(* C8: add is idempotent: an add(v) that follows an add(v) leaves the set  *)
(* as the first add left it (same members, same size), and has(v) holds    *)
(* after each.                                                             *)
(***************************************************************************)
C8_AddIdempotent ==
    [][last'.op = "add" =>
          /\ Set_has(heap'[1], last'.key.val)
          /\ (last.op = "add" /\ last.key = last'.key) =>
                /\ heap'[1] = heap[1]
                /\ Members(heap'[1]) = Members(heap[1])]_vars

\* an add of a value that is already a member of a two-member set
C8_Witness ==
    /\ last.op = "add" /\ last.had
    /\ Cardinality(Members(heap[1])) = 2

(***************************************************************************)
(* C9: the emptiness predicate returns true exactly when no value v has    *)
(* has(v) true, so again once every added value has been deleted.          *)
(***************************************************************************)
C9_IsEmptyIffNoMember ==
    last.op = "isEmpty" => (last.ret = True <=> Members(heap[1]) = {})

\* the predicate is true of a set to which two values had been added
C9_Witness ==
    /\ last.op = "isEmpty" /\ last.ret = True
    /\ Cardinality(hist) = 2

(***************************************************************************)
(* The early-exit predicates over a map.  A predicate is given by the set  *)
(* of arguments on which it returns true.  Each function returns its       *)
(* result and the arguments on which the predicate was invoked, in order.  *)
(***************************************************************************)
RECURSIVE someInIteratorFrom(_, _, _)
someInIteratorFrom(iter, predicate, i) ==
    IF i > Len(iter) THEN [ret |-> FALSE, calls |-> iter]
    ELSE IF iter[i] \in predicate THEN [ret |-> TRUE, calls |-> SubSeq(iter, 1, i)]
    ELSE someInIteratorFrom(iter, predicate, i + 1)

someInIterator(iter, predicate) == someInIteratorFrom(iter, predicate, 1)

someInForEachNoShortCircuit(entries, predicate, i, found, calls) ==
    [ret |-> \E j \in 1..Len(entries) : entries[j] \in predicate, calls |-> entries]

\* map.forEach((value, key) => { found = found || predicate(key, value); })
RECURSIVE someInForEach(_, _, _, _, _)
someInForEach(entries, predicate, i, found, calls) ==
    IF i > Len(entries) THEN [ret |-> found, calls |-> calls]
    ELSE IF found THEN someInForEach(entries, predicate, i + 1, TRUE, calls)
    ELSE someInForEach(entries, predicate, i + 1, entries[i] \in predicate,
                       Append(calls, entries[i]))

\* someInMap (_someEntry in the earlier revision): entries() where the maps are
\* fully featured, else forEach.
someInMap(map, predicate, fullyFeatured) ==
    IF fullyFeatured
    THEN someInIterator(Map_entries(map), predicate)
    ELSE someInForEach(Map_forEach(map), predicate, 1, FALSE, <<>>)

\* a predicate of the key, called with (key, value)
OfKey(map, predicate) ==
    LET entries == Map_forEach(map)
    IN  {entries[i] : i \in {j \in 1..Len(entries) : entries[j].key \in predicate}}

\* someKeyInMap (_someKey): keys() where fully featured, else someInMap itself.
someKeyInMap(map, predicate, fullyFeatured) ==
    IF fullyFeatured
    THEN someInIterator(Map_keys(map), predicate)
    ELSE someInMap(map, OfKey(map, predicate), FALSE)

(***************************************************************************)
(* Equality of maps and of records.  An equalityComparer is a function of  *)
(* two values or is not given.                                             *)
(***************************************************************************)
NoComparer == "none"
Comparers == {"always", "sameTypeof", "leftDefined"}

ApplyComparer(equalityComparer, left, right) ==
    CASE equalityComparer = "always" -> TRUE
      [] equalityComparer = "sameTypeof" -> Typeof(left) = Typeof(right)
      [] equalityComparer = "leftDefined" -> left # Undefined

\* The entries of a map and its keys, as sets.
EntriesOf(map) == {Map_forEach(map)[i] : i \in 1..Len(Map_forEach(map))}
KeySetOf(map) == {e.key : e \in EntriesOf(map)}

HasNoMatchInComparerSwapped(left, right, equalityComparer) ==
    {e \in EntriesOf(left) :
        IF ~Map_has(right, e.key) THEN TRUE
        ELSE LET rightValue == Map_get(right, e.key)
             IN  ~(IF equalityComparer # NoComparer
                   THEN ApplyComparer(equalityComparer, rightValue, e.value)
                   ELSE StrictEquals(e.value, rightValue))}

\* (leftKey, leftValue) => { if (!right.has(leftKey)) return true; ... }
HasNoMatchIn(left, right, equalityComparer) ==
    {e \in EntriesOf(left) :
        IF ~Map_has(right, e.key) THEN TRUE
        ELSE LET rightValue == Map_get(right, e.key)
             IN  ~(IF equalityComparer # NoComparer
                   THEN ApplyComparer(equalityComparer, e.value, rightValue)
                   ELSE StrictEquals(e.value, rightValue))}

_equalMapsLeftOnly(h, left, right, equalityComparer, fullyFeatured) ==
    IF StrictEquals(left, right) THEN TRUE
    ELSE IF ~Truthy(left) \/ ~Truthy(right) THEN FALSE
    ELSE ~someInMap(h[left.val],
                    HasNoMatchIn(h[left.val], h[right.val], equalityComparer),
                    fullyFeatured).ret

_equalMaps(h, left, right, equalityComparer, fullyFeatured) ==
    IF StrictEquals(left, right) THEN TRUE
    ELSE IF ~Truthy(left) \/ ~Truthy(right) THEN FALSE
    ELSE LET someInLeftHasNoMatch ==
                 someInMap(h[left.val],
                           HasNoMatchIn(h[left.val], h[right.val], equalityComparer),
                           fullyFeatured).ret
         IN  IF someInLeftHasNoMatch THEN FALSE
             ELSE LET someInRightHasNoMatch ==
                          someKeyInMap(h[right.val],
                                       {rightKey \in KeySetOf(h[right.val]) :
                                           ~Map_has(h[left.val], rightKey)},
                                       fullyFeatured).ret
                  IN  ~someInRightHasNoMatch

\* The own enumerable keys a `for (key in o) if (hasOwnProperty.call(o, key))`
\* loop visits.
OwnKeysLoop(obj) == SelectSeq(ForInKeys(obj), LAMBDA key : HasOwnProperty(obj, key))

equalOwnProperties(h, left, right, equalityComparer) ==
    IF StrictEquals(left, right) THEN TRUE
    ELSE IF ~Truthy(left) \/ ~Truthy(right) THEN FALSE
    ELSE LET l == h[left.val].data
             r == h[right.val].data
             leftKeys == OwnKeysLoop(l)
             rightKeys == OwnKeysLoop(r)
             \* the two tests made on each own key of left
             returnsFalseAt(key) ==
                 \/ StrictEquals(Bool(~HasOwnProperty(r, key)), Undefined)
                 \/ IF equalityComparer # NoComparer
                    THEN ~ApplyComparer(equalityComparer,
                                        GetProperty(l, key), GetProperty(r, key))
                    ELSE ~StrictEquals(GetProperty(l, key), GetProperty(r, key))
         IN  IF \E i \in 1..Len(leftKeys) : returnsFalseAt(leftKeys[i]) THEN FALSE
             ELSE IF \E i \in 1..Len(rightKeys) : ~HasOwnProperty(l, rightKeys[i])
             THEN FALSE
             ELSE TRUE

(***************************************************************************)
(* SpecEqual: two maps (fallback, native, or native and fully featured) or *)
(* two records, at addresses 1 and 2, with any contents over a small key   *)
(* and value domain; _equalMaps or equalOwnProperties is called on any     *)
(* pair of them or of absent values, with any comparer, and _equalMaps     *)
(* once more with the two arguments exchanged.                             *)
(***************************************************************************)
EqualKeys == {"a", "toString"}
EqualMapValues == {Undefined, Num(1), NaN}
EqualRecordValues == {Undefined, NaN, Fn(1)}

DistinctKeys(es) == \A i, j \in 1..Len(es) : es[i][1] = es[j][1] => i = j

EntryLists(values) ==
    {es \in SeqsUpTo(EqualKeys \X values, Cardinality(EqualKeys)) : DistinctKeys(es)}

RECURSIVE SetAll(_, _)
SetAll(m, es) ==
    IF es = <<>> THEN m
    ELSE SetAll(Map_set(m, Str(Head(es)[1]), Head(es)[2]), Tail(es))

RECURSIVE PutAll(_, _)
PutAll(data, es) ==
    IF es = <<>> THEN data
    ELSE PutAll(PutProperty(data, Head(es)[1], Head(es)[2]), Tail(es))

\* a record written as a literal { k1: v1, ... }
RecordOf(es) == [class |-> "Object", data |-> PutAll(ObjectLiteral, es)]

EqualArgs == {Undefined, Null, Ref(1), Ref(2)}

IsAbsent(v) == v \in {Undefined, Null}

\* The record of a call of an equality function; `swapped` marks the second
\* call of a pair, made with the arguments of the first exchanged.
EqualCall(op, left, right, equalityComparer, ret, swapped) ==
    [op |-> op, left |-> left, right |-> right,
     equalityComparer |-> equalityComparer, ret |-> ret, swapped |-> swapped]

InitEqual ==
    /\ usingNativeMaps \in BOOLEAN
    /\ fullyFeaturedMaps \in BOOLEAN
    /\ fullyFeaturedMaps => usingNativeMaps
    /\ \/ \E e1, e2 \in EntryLists(EqualMapValues) :
             heap = <<SetAll(StringMap_new(usingNativeMaps), e1),
                      SetAll(StringMap_new(usingNativeMaps), e2)>>
       \/ /\ ~usingNativeMaps
          /\ \E e1, e2 \in EntryLists(EqualRecordValues) :
                heap = <<RecordOf(e1), RecordOf(e2)>>
    /\ last = NoCall
    /\ hist = {}

CallEqualMaps(left, right, equalityComparer) ==
    /\ last.op = "new"
    /\ heap[1].class # "Object"
    /\ last' = EqualCall("_equalMaps", left, right, equalityComparer,
                         _equalMaps(heap, left, right, equalityComparer,
                                    fullyFeaturedMaps),
                         FALSE)
    /\ UNCHANGED <<heap, hist, probe>>

\* the same call again with left and right exchanged
CallEqualMapsSwapped ==
    /\ last.op = "_equalMaps" /\ ~last.swapped
    /\ last' = EqualCall("_equalMaps", last.right, last.left, last.equalityComparer,
                         _equalMaps(heap, last.right, last.left, last.equalityComparer,
                                    fullyFeaturedMaps),
                         TRUE)
    /\ UNCHANGED <<heap, hist, probe>>

CallEqualOwnProperties(left, right, equalityComparer) ==
    /\ last.op = "new"
    /\ heap[1].class = "Object"
    /\ last' = EqualCall("equalOwnProperties", left, right, equalityComparer,
                         equalOwnProperties(heap, left, right, equalityComparer),
                         FALSE)
    /\ UNCHANGED <<heap, hist, probe>>

NextEqual ==
    \/ \E l, r \in EqualArgs, c \in Comparers \cup {NoComparer} : CallEqualMaps(l, r, c)
    \/ CallEqualMapsSwapped
    \/ \E l, r \in EqualArgs, c \in Comparers \cup {NoComparer} :
          CallEqualOwnProperties(l, r, c)

SpecEqual == InitEqual /\ [][NextEqual]_vars

\* The keys of a map and the own keys of a record, among the keys of the model.
KeysIn(m) == {k \in EqualKeys : Map_has(m, Str(k))}
OwnKeysIn(o) == {k \in EqualKeys : HasOwnProperty(o.data, k)}

(***************************************************************************)
(* C3: with the default comparison equalOwnProperties(left, right) is true *)
(* exactly when left and right are the same reference, or both are present *)
(* and every own key of left is an own key of right with an identical      *)
(* (===) value and every own key of right is an own key of left.           *)
(***************************************************************************)
C3_EqualOwnPropertiesIff ==
    (last.op = "equalOwnProperties" /\ last.equalityComparer = NoComparer) =>
        last.ret =
            (\/ StrictEquals(last.left, last.right)
             \/ /\ ~IsAbsent(last.left) /\ ~IsAbsent(last.right)
                /\ \A k \in OwnKeysIn(heap[last.left.val]) :
                      /\ k \in OwnKeysIn(heap[last.right.val])
                      /\ StrictEquals(GetProperty(heap[last.left.val].data, k),
                                      GetProperty(heap[last.right.val].data, k))
                /\ \A k \in OwnKeysIn(heap[last.right.val]) :
                      k \in OwnKeysIn(heap[last.left.val]))

(***************************************************************************)
(* C4: _equalMaps(left, right) is true exactly when left and right are the *)
(* same reference, or both are present, every key of left is a key of      *)
(* right with an equal value (=== by default, else the comparer applied to *)
(* (leftValue, rightValue)) and every key of right is a key of left; it is *)
(* false when exactly one is absent; and the fully-featured and the        *)
(* fallback iteration give the same result.                                *)
(***************************************************************************)
C4_EqualMapsIff ==
    last.op = "_equalMaps" =>
        LET l == last.left
            r == last.right
            c == last.equalityComparer
            equalValues(a, b) ==
                IF c = NoComparer THEN StrictEquals(a, b) ELSE ApplyComparer(c, a, b)
        IN  /\ last.ret =
                  (\/ StrictEquals(l, r)
                   \/ /\ ~IsAbsent(l) /\ ~IsAbsent(r)
                      /\ \A k \in KeysIn(heap[l.val]) :
                            /\ k \in KeysIn(heap[r.val])
                            /\ equalValues(Map_get(heap[l.val], Str(k)),
                                           Map_get(heap[r.val], Str(k)))
                      /\ \A k \in KeysIn(heap[r.val]) : k \in KeysIn(heap[l.val]))
            /\ (IsAbsent(l) # IsAbsent(r)) => ~last.ret
            /\ usingNativeMaps =>
                  _equalMaps(heap, l, r, c, TRUE) = _equalMaps(heap, l, r, c, FALSE)

\* two distinct fully-featured maps with the same two keys, compared by a
\* comparer that looks at the left value only, and found equal
C4_Witness ==
    /\ last.op = "_equalMaps" /\ last.ret
    /\ fullyFeaturedMaps
    /\ last.left = Ref(1) /\ last.right = Ref(2)
    /\ last.equalityComparer = "leftDefined"
    /\ Cardinality(KeysIn(heap[1])) = 2
    /\ heap[1] # heap[2]

(***************************************************************************)
(* C5: under the default comparison _equalMaps(m, m) is true; swapping the *)
(* arguments of a call does not change the result; and two maps with the   *)
(* same keys and a differing value, or one with a key the other lacks, are *)
(* unequal on whichever side they are passed.                              *)
(***************************************************************************)
C5_EqualMapsReflexiveSymmetric ==
    [][(last'.op = "_equalMaps" /\ last'.equalityComparer = NoComparer) =>
          LET l == last'.left
              r == last'.right
          IN  /\ (~IsAbsent(l) /\ l = r) => last'.ret
              /\ (last.op = "_equalMaps" /\ last.equalityComparer = NoComparer
                     /\ last.left = r /\ last.right = l) => last'.ret = last.ret
              /\ (~IsAbsent(l) /\ ~IsAbsent(r)) =>
                    /\ KeysIn(heap[l.val]) # KeysIn(heap[r.val]) => ~last'.ret
                    /\ (/\ KeysIn(heap[l.val]) = KeysIn(heap[r.val])
                         /\ \E k \in KeysIn(heap[l.val]) :
                               ~StrictEquals(Map_get(heap[l.val], Str(k)),
                                             Map_get(heap[r.val], Str(k)))
                         /\ l # r) => ~last'.ret]_vars

\* the swapped call of an unequal pair in which only the right map (now passed
\* on the left) has an extra key
C5_Witness ==
    /\ last.op = "_equalMaps" /\ last.equalityComparer = NoComparer
    /\ last.swapped /\ ~last.ret
    /\ last.left = Ref(2) /\ last.right = Ref(1)
    /\ KeysIn(heap[1]) = {"a"} /\ KeysIn(heap[2]) = {"a", "toString"}
    /\ Map_get(heap[1], Str("a")) = Map_get(heap[2], Str("a"))

(***************************************************************************)
(* Objects on the heap.  A new object takes the lowest free address; an    *)
(* array no map refers to any more is unreachable and is dropped.          *)
(***************************************************************************)
NewAddress(h) ==
    CHOOSE a \in 1..(Cardinality(DOMAIN h) + 1) :
        a \notin DOMAIN h /\ \A b \in 1..(a - 1) : b \in DOMAIN h

Allocate(h, obj) ==
    [a \in DOMAIN h \cup {NewAddress(h)} |-> IF a \in DOMAIN h THEN h[a] ELSE obj]

IsMap(obj) == obj.class \in {"ShimStringMap", "Map"}

Referenced(h) ==
    UNION {{e.value.val : e \in {x \in EntriesOf(h[a]) : x.value.tag = "object"}} :
              a \in {b \in DOMAIN h : IsMap(h[b])}}

Collect(h) ==
    [a \in {b \in DOMAIN h : h[b].class # "Array" \/ b \in Referenced(h)} |-> h[a]]

\* the array literal [e1, ...]
ArrayOf(elems) == [class |-> "Array", elems |-> elems]

(***************************************************************************)
(* Functions that change the heap return the new heap and their result.    *)
(***************************************************************************)
setAndReturn(h, map, key, value) ==
    [heap |-> [h EXCEPT ![map] = Map_set(h[map], key, value)], ret |-> value]

multiMapAddPrepends(h, map, key, value) ==
    LET values == Map_get(h[map], key)
    IN  IF Truthy(values)
        THEN [heap |-> [h EXCEPT ![values.val].elems = <<value>> \o h[values.val].elems],
              ret |-> values]
        ELSE setAndReturn(Allocate(h, ArrayOf(<<value>>)), map, key, Ref(NewAddress(h)))

multiMapAdd(h, map, key, value) ==
    LET values == Map_get(h[map], key)
    IN  IF Truthy(values)
        THEN [heap |-> [h EXCEPT ![values.val].elems = Append(h[values.val].elems, value)],
              ret |-> values]
        ELSE setAndReturn(Allocate(h, ArrayOf(<<value>>)), map, key, Ref(NewAddress(h)))

\* The arrangements of a sequence with its i-th element taken out.
RECURSIVE Arrangements(_)
Arrangements(elems) ==
    IF elems = <<>> THEN {<<>>}
    ELSE UNION {{<<elems[i]>> \o rest :
                    rest \in Arrangements(SubSeq(elems, 1, i - 1)
                                          \o SubSeq(elems, i + 1, Len(elems)))} :
                  i \in 1..Len(elems)}

\* unorderedRemoveItem(array, item): what the array may hold afterwards.  One
\* occurrence of item (by ===) is removed and the order of the rest is not
\* kept; without an occurrence the array is left as it is.
unorderedRemoveItem(elems, item) ==
    LET at == {i \in 1..Len(elems) : StrictEquals(elems[i], item)}
    IN  IF at = {} THEN {elems}
        ELSE UNION {Arrangements(SubSeq(elems, 1, i - 1)
                                 \o SubSeq(elems, i + 1, Len(elems))) : i \in at}

multiMapRemoveKeepsKey(h, map, key, value, removed) ==
    LET values == Map_get(h[map], key)
    IN  IF Truthy(values)
        THEN [heap |-> [h EXCEPT ![values.val].elems = removed], ret |-> Undefined]
        ELSE [heap |-> h, ret |-> Undefined]

multiMapRemoveAlwaysDeletes(h, map, key, value, removed) ==
    LET values == Map_get(h[map], key)
    IN  IF Truthy(values)
        THEN LET h1 == [h EXCEPT ![values.val].elems = removed]
             IN  [heap |-> [h1 EXCEPT ![map] = Map_delete(h1[map], key)], ret |-> Undefined]
        ELSE [heap |-> h, ret |-> Undefined]

\* multiMapRemove, with `removed` what unorderedRemoveItem left in the array
multiMapRemove(h, map, key, value, removed) ==
    LET values == Map_get(h[map], key)
    IN  IF Truthy(values)
        THEN LET h1 == [h EXCEPT ![values.val].elems = removed]
             IN  IF Len(removed) = 0
                 THEN [heap |-> [h1 EXCEPT ![map] = Map_delete(h1[map], key)],
                       ret |-> Undefined]
                 ELSE [heap |-> h1, ret |-> Undefined]
        ELSE [heap |-> h, ret |-> Undefined]

\* what unorderedRemoveItem may leave in the list of key (nothing to choose
\* where key has no list)
RemovalsAt(h, map, key, value) ==
    IF Truthy(Map_get(h[map], key))
    THEN unorderedRemoveItem(h[Map_get(h[map], key).val].elems, value)
    ELSE {<<>>}

(***************************************************************************)
(* SpecMulti: a multimap at address 1, empty at first, under any sequence  *)
(* of multiMapAdd and multiMapRemove.  hist holds the list the key of the  *)
(* last call had before the call.                                          *)
(***************************************************************************)
MaxListLen == 2     \* multiMapAdd is not called on a list of this length

MultiKeys == {"a", "b"}
MultiValues == {Num(1), Num(2)}

\* The list stored under key, as a sequence; <<>> where there is none.
ListAt(h, map, key) ==
    IF Truthy(Map_get(h[map], key)) THEN h[Map_get(h[map], key).val].elems ELSE <<>>

HeapCall(op, map, key, value, ret) ==
    [op |-> op, map |-> map, key |-> key, value |-> value, ret |-> ret]

InitMulti ==
    /\ usingNativeMaps \in BOOLEAN
    /\ fullyFeaturedMaps = usingNativeMaps
    /\ heap = <<StringMap_new(usingNativeMaps)>>
    /\ last = NoCall
    /\ hist = {}

MultiMapAdd(k, v) ==
    /\ Len(ListAt(heap, 1, Str(k))) < MaxListLen
    /\ LET r == multiMapAdd(heap, 1, Str(k), v)
       IN  /\ heap' = Collect(r.heap)
           /\ last' = HeapCall("multiMapAdd", 1, Str(k), v, r.ret)
    /\ hist' = {ListAt(heap, 1, Str(k))}
    /\ UNCHANGED probe

MultiMapRemove(k, v) ==
    /\ \E removed \in RemovalsAt(heap, 1, Str(k), v) :
          LET r == multiMapRemove(heap, 1, Str(k), v, removed)
          IN  /\ heap' = Collect(r.heap)
              /\ last' = HeapCall("multiMapRemove", 1, Str(k), v, r.ret)
    /\ hist' = {ListAt(heap, 1, Str(k))}
    /\ UNCHANGED probe

NextMulti ==
    \/ \E k \in MultiKeys, v \in MultiValues : MultiMapAdd(k, v)
    \/ \E k \in MultiKeys, v \in MultiValues : MultiMapRemove(k, v)

SpecMulti == InitMulti /\ [][NextMulti]_vars

(***************************************************************************)
(* C10: a multiMapAdd(map, key, value) step appends value at the end of    *)
(* the list key already maps to, which stays the same list, or else maps   *)
(* key to a new list holding value alone; it returns the list stored under *)
(* key afterwards; and it leaves the entries of all other keys as they     *)
(* were.                                                                   *)
(***************************************************************************)
C10_MultiMapAddAppends ==
    [][last'.op = "multiMapAdd" =>
          LET k == last'.key
              v == last'.value
          IN  /\ IF Truthy(Map_get(heap[1], k))
                 THEN /\ Map_get(heap'[1], k) = Map_get(heap[1], k)
                      /\ ListAt(heap', 1, k) = Append(ListAt(heap, 1, k), v)
                 ELSE /\ Map_get(heap'[1], k).tag = "object"
                      /\ Map_get(heap'[1], k).val \notin DOMAIN heap
                      /\ ListAt(heap', 1, k) = <<v>>
              /\ last'.ret = Map_get(heap'[1], k)
              /\ \A o \in MultiKeys \ {k.val} :
                    /\ Map_has(heap'[1], Str(o)) = Map_has(heap[1], Str(o))
                    /\ Map_get(heap'[1], Str(o)) = Map_get(heap[1], Str(o))
                    /\ ListAt(heap', 1, Str(o)) = ListAt(heap, 1, Str(o))]_vars

\* multiMapAdd(m, "a", 1) then multiMapAdd(m, "a", 2): m.get("a") is [1, 2],
\* beside another key with a list of its own
C10_Witness ==
    /\ last.op = "multiMapAdd" /\ last.key = Str("a") /\ last.value = Num(2)
    /\ ListAt(heap, 1, Str("a")) = <<Num(1), Num(2)>>
    /\ ListAt(heap, 1, Str("b")) # <<>>

(***************************************************************************)
(* Copies of maps, and the functions that rewrite the values of a map.     *)
(* A modifier or mapValue callback is a function of the value that changes *)
(* nothing itself.                                                         *)
(***************************************************************************)
Modifiers == {"identity", "toUndefined"}

ApplyModifier(modifier, value) ==
    CASE modifier = "identity" -> value
      [] modifier = "toUndefined" -> Undefined

\* target.set(key, value) for each entry forEach hands over
RECURSIVE SetEach(_, _)
SetEach(target, entries) ==
    IF entries = <<>> THEN target
    ELSE SetEach(Map_set(target, Head(entries).key, Head(entries).value), Tail(entries))

copyMapPropertiesFromToReversed(h, source, target) ==
    [heap |-> [h EXCEPT ![source] = SetEach(h[source], Map_forEach(h[target]))],
     ret |-> Undefined]

copyMapPropertiesFromTo(h, source, target) ==
    [heap |-> [h EXCEPT ![target] = SetEach(h[target], Map_forEach(h[source]))],
     ret |-> Undefined]

cloneMapReturnsMap(h, map, native) == [heap |-> h, ret |-> Ref(map)]

cloneMap(h, map, native) ==
    LET clone == NewAddress(h)
    IN  [heap |-> copyMapPropertiesFromTo(Allocate(h, StringMap_new(native)), map, clone).heap,
         ret |-> Ref(clone)]

_mod(h, map, key, modifier) ==
    [heap |-> [h EXCEPT ![map] =
                  Map_set(h[map], key, ApplyModifier(modifier, Map_get(h[map], key)))],
     ret |-> Undefined]

\* map.set(key, mapValue(value)) for each entry forEach hands over
RECURSIVE SetEachMapped(_, _, _)
SetEachMapped(map, entries, mapValue) ==
    IF entries = <<>> THEN map
    ELSE SetEachMapped(Map_set(map, Head(entries).key,
                               ApplyModifier(mapValue, Head(entries).value)),
                       Tail(entries), mapValue)

_mapValuesMutate(h, map, mapValue) ==
    [heap |-> [h EXCEPT ![map] = SetEachMapped(h[map], Map_forEach(h[map]), mapValue)],
     ret |-> Undefined]

(***************************************************************************)
(* SpecClone: a map m at address 1, holding plain values and lists, is     *)
(* cloned once; the clone is then changed by any sequence of set, delete,  *)
(* clear, _mod, _mapValuesMutate, multiMapAdd and multiMapRemove.  hist    *)
(* holds the reference cloneMap returned and the number of calls made on   *)
(* the clone since.                                                        *)
(***************************************************************************)
MaxCloneCalls == 2  \* calls made on the clone
CloneKeys == MultiKeys
ClonePlainValues == {Undefined, NaN}
CloneLists == {<<Num(1)>>, <<Num(1), Num(2)>>}

\* What m starts with under a key: a plain value, or a list where list is not
\* empty.
CloneInitValues ==
    {[value |-> v, list |-> <<>>] : v \in ClonePlainValues}
    \cup {[value |-> Undefined, list |-> l] : l \in CloneLists}

CloneInitEntries ==
    {es \in SeqsUpTo(CloneKeys \X CloneInitValues, Cardinality(CloneKeys)) : DistinctKeys(es)}

RECURSIVE AddEach(_, _, _, _)
AddEach(h, map, key, list) ==
    IF list = <<>> THEN h
    ELSE AddEach(multiMapAdd(h, map, key, Head(list)).heap, map, key, Tail(list))

\* m as built by set and multiMapAdd calls
RECURSIVE BuildMap(_, _, _)
BuildMap(h, map, es) ==
    IF es = <<>> THEN h
    ELSE LET k == Str(Head(es)[1])
             x == Head(es)[2]
         IN  BuildMap(IF x.list = <<>>
                      THEN [h EXCEPT ![map] = Map_set(h[map], k, x.value)]
                      ELSE AddEach(h, map, k, x.list),
                      map, Tail(es))

InitClone ==
    /\ usingNativeMaps \in BOOLEAN
    /\ fullyFeaturedMaps \in BOOLEAN
    /\ fullyFeaturedMaps => usingNativeMaps
    /\ \E es \in CloneInitEntries :
          heap = BuildMap(<<StringMap_new(usingNativeMaps)>>, 1, es)
    /\ last = NoCall
    /\ hist = {}

\* the address of the clone
TheClone == (CHOOSE r \in hist : TRUE).clone.val
CloneCalls == (CHOOSE r \in hist : TRUE).calls

\* the clone can take one more call
CanCall == hist # {} /\ CloneCalls < MaxCloneCalls
Called == {[clone |-> Ref(TheClone), calls |-> CloneCalls + 1]}

CloneMap ==
    /\ hist = {}
    /\ LET r == cloneMap(heap, 1, usingNativeMaps)
       IN  /\ heap' = r.heap
           /\ hist' = {[clone |-> r.ret, calls |-> 0]}
           /\ last' = HeapCall("cloneMap", 1, Undefined, Undefined, r.ret)
    /\ UNCHANGED probe

CloneSet(k, v) ==
    /\ CanCall
    /\ heap' = Collect([heap EXCEPT ![TheClone] = Map_set(heap[TheClone], Str(k), v)])
    /\ last' = HeapCall("set", TheClone, Str(k), v, Undefined)
    /\ hist' = Called
    /\ UNCHANGED probe

CloneDelete(k) ==
    /\ CanCall
    /\ heap' = Collect([heap EXCEPT ![TheClone] = Map_delete(heap[TheClone], Str(k))])
    /\ last' = HeapCall("delete", TheClone, Str(k), Undefined, Undefined)
    /\ hist' = Called
    /\ UNCHANGED probe

CloneClear ==
    /\ CanCall
    /\ heap' = Collect([heap EXCEPT ![TheClone] = Map_clear(heap[TheClone])])
    /\ last' = HeapCall("clear", TheClone, Undefined, Undefined, Undefined)
    /\ hist' = Called
    /\ UNCHANGED probe

CloneMod(k, modifier) ==
    /\ CanCall
    /\ heap' = Collect(_mod(heap, TheClone, Str(k), modifier).heap)
    /\ last' = HeapCall("_mod", TheClone, Str(k), Str(modifier), Undefined)
    /\ hist' = Called
    /\ UNCHANGED probe

CloneMapValuesMutate(mapValue) ==
    /\ CanCall
    /\ heap' = Collect(_mapValuesMutate(heap, TheClone, mapValue).heap)
    /\ last' = HeapCall("_mapValuesMutate", TheClone, Undefined, Str(mapValue), Undefined)
    /\ hist' = Called
    /\ UNCHANGED probe

CloneMultiMapAdd(k, v) ==
    /\ CanCall
    /\ Len(ListAt(heap, TheClone, Str(k))) < MaxListLen
    /\ LET r == multiMapAdd(heap, TheClone, Str(k), v)
       IN  /\ heap' = Collect(r.heap)
           /\ last' = HeapCall("multiMapAdd", TheClone, Str(k), v, r.ret)
    /\ hist' = Called
    /\ UNCHANGED probe

CloneMultiMapRemove(k, v) ==
    /\ CanCall
    /\ \E removed \in RemovalsAt(heap, TheClone, Str(k), v) :
          LET r == multiMapRemove(heap, TheClone, Str(k), v, removed)
          IN  /\ heap' = Collect(r.heap)
              /\ last' = HeapCall("multiMapRemove", TheClone, Str(k), v, r.ret)
    /\ hist' = Called
    /\ UNCHANGED probe

NextClone ==
    \/ CloneMap
    \/ \E k \in CloneKeys, v \in ClonePlainValues : CloneSet(k, v)
    \/ \E k \in CloneKeys : CloneDelete(k)
    \/ CloneClear
    \/ \E k \in CloneKeys, modifier \in Modifiers : CloneMod(k, modifier)
    \/ \E mapValue \in Modifiers : CloneMapValuesMutate(mapValue)
    \/ \E k \in CloneKeys, v \in MultiValues : CloneMultiMapAdd(k, v)
    \/ \E k \in CloneKeys, v \in MultiValues : CloneMultiMapRemove(k, v)

SpecClone == InitClone /\ [][NextClone]_vars

\* What m shows through has, get and forEach: its keys in order, and its
\* values, a list as the reference to it.
ViewOf(h, map) ==
    [has |-> [k \in CloneKeys |-> Map_has(h[map], Str(k))],
     get |-> [k \in CloneKeys |-> Map_get(h[map], Str(k))],
     forEach |-> Map_forEach(h[map])]

\* The contents of the lists m holds.
ListsOf(h, map) == [k \in CloneKeys |-> ListAt(h, map, Str(k))]

CloneMutations ==
    {"set", "delete", "clear", "_mod", "_mapValuesMutate", "multiMapAdd", "multiMapRemove"}

(***************************************************************************)
(* C6 as stated: cloneMap(m) returns a new container c with                *)
(* _equalMaps(c, m) true, and no set, delete, clear, _mod,                 *)
(* _mapValuesMutate, multiMapAdd or multiMapRemove applied to c changes    *)
(* what m shows through has and get, the contents of its lists included.   *)
(***************************************************************************)
C6_CloneEqualAndIndependent ==
    [][/\ last'.op = "cloneMap" =>
            /\ last'.ret.val \notin DOMAIN heap
            /\ _equalMaps(heap', last'.ret, Ref(1), NoComparer, fullyFeaturedMaps)
       /\ (last'.op \in CloneMutations /\ last'.map # 1) =>
            /\ ViewOf(heap', 1) = ViewOf(heap, 1)
            /\ ListsOf(heap', 1) = ListsOf(heap, 1)]_vars

\* a value of m that is not === to itself
HoldsNaN(h, map) == \E e \in EntriesOf(h[map]) : ~StrictEquals(e.value, e.value)

(***************************************************************************)
(* C6 amended: cloneMap(m) returns a new container c, and _equalMaps(c, m) *)
(* is true exactly when no value of m is NaN.  The copy is shallow: none   *)
(* of the seven operations applied to c changes the keys of m, their order *)
(* or the values m.get returns (a list being the same list object), and    *)
(* set, delete, clear, _mod and _mapValuesMutate leave the contents of the *)
(* lists of m alone; multiMapAdd(c, k, v) and multiMapRemove(c, k, v)      *)
(* change the contents of a list of m only where c.get(k) is that very     *)
(* list.                                                                   *)
(***************************************************************************)
C6_CloneShallowAndIndependent ==
    [][/\ last'.op = "cloneMap" =>
            /\ last'.ret.val \notin DOMAIN heap
            /\ _equalMaps(heap', last'.ret, Ref(1), NoComparer, fullyFeaturedMaps)
                   = ~HoldsNaN(heap, 1)
       /\ (last'.op \in CloneMutations /\ last'.map \in DOMAIN heap) =>
            /\ last'.map # 1
            /\ ViewOf(heap', 1) = ViewOf(heap, 1)
            /\ \A j \in CloneKeys :
                  ListAt(heap', 1, Str(j)) # ListAt(heap, 1, Str(j)) =>
                      /\ last'.op \in {"multiMapAdd", "multiMapRemove"}
                      /\ Map_get(heap[last'.map], last'.key) = Map_get(heap[1], Str(j))]_vars

\* multiMapAdd(c, "a", 2) after c.delete("a"): c has a list of its own under
\* "a" and m still has the list [1]; m alone has the key "b"
C6_Witness ==
    /\ hist # {} /\ TheClone # 1
    /\ last.op = "multiMapAdd" /\ last.map = TheClone /\ last.key = Str("a")
    /\ ListAt(heap, 1, Str("a")) = <<Num(1)>>
    /\ ListAt(heap, TheClone, Str("a")) = <<Num(2)>>
    /\ Map_has(heap[1], Str("b")) /\ ~Map_has(heap[TheClone], Str("b"))

\* the list the key of the last call had before the call
ListBefore == CHOOSE l \in hist : TRUE

\* how often value occurs in a list
Count(list, value) == Cardinality({i \in 1..Len(list) : list[i] = value})

\* no key the map has maps to an empty list
NoEmptyList(h, map) ==
    \A k \in MultiKeys : Map_has(h[map], Str(k)) => ListAt(h, map, Str(k)) # <<>>

(***************************************************************************)
(* C11: a multiMapRemove(map, key, value) step with value in the list of   *)
(* key takes exactly one occurrence of value out of that list, every other *)
(* element occurring as often as before, and deletes key when the list has *)
(* become empty; before and after every step no key the map has maps to an *)
(* empty list.                                                             *)
(***************************************************************************)
C11_RemoveOneOccurrence ==
    [][/\ (last'.op = "multiMapRemove"
           /\ Count(ListAt(heap, 1, last'.key), last'.value) > 0) =>
            LET before == ListAt(heap, 1, last'.key)
                after == ListAt(heap', 1, last'.key)
            IN  /\ \A v \in MultiValues :
                      Count(after, v) = Count(before, v) - (IF v = last'.value THEN 1 ELSE 0)
                /\ Len(after) = Len(before) - 1
                /\ Map_has(heap'[1], last'.key) = (Len(before) > 1)
                /\ Map_has(heap'[1], last'.key) =>
                      Map_get(heap'[1], last'.key) = Map_get(heap[1], last'.key)
       /\ NoEmptyList(heap, 1)
       /\ NoEmptyList(heap', 1)]_vars

\* multiMapRemove(m, "a", 1) on the list [1]: m no longer has "a", and "b"
\* keeps its two elements
C11_Witness ==
    /\ last.op = "multiMapRemove" /\ last.key = Str("a") /\ last.value = Num(1)
    /\ ListBefore = <<Num(1)>>
    /\ ~Map_has(heap[1], Str("a"))
    /\ Len(ListAt(heap, 1, Str("b"))) = 2

(***************************************************************************)
(* C12: a multiMapRemove(map, key, value) step with key not in the map, or *)
(* with value not in the list of key, changes nothing: the map has the     *)
(* same keys and every list the same elements, in the same order.          *)
(***************************************************************************)
C12_RemoveAbsentIsNoOp ==
    [][(last'.op = "multiMapRemove"
        /\ \/ ~Map_has(heap[1], last'.key)
           \/ Count(ListAt(heap, 1, last'.key), last'.value) = 0) =>
            /\ heap' = heap
            /\ last'.ret = Undefined]_vars

\* multiMapRemove(m, "a", 2) on the list [1, 1]
C12_Witness ==
    /\ last.op = "multiMapRemove" /\ last.key = Str("a") /\ last.value = Num(2)
    /\ ListBefore = <<Num(1), Num(1)>>
    /\ ListAt(heap, 1, Str("a")) = <<Num(1), Num(1)>>

(***************************************************************************)
(* _getOrUpdate.  A getValue callback is a function of the key that        *)
(* changes nothing itself; `calls` are the keys it was invoked with.       *)
(***************************************************************************)
GetValues == {"toOne", "toTwo", "toUndefined"}

ApplyGetValue(getValue, key) ==
    CASE getValue = "toOne" -> Num(1)
      [] getValue = "toTwo" -> Num(2)
      [] getValue = "toUndefined" -> Undefined

_getOrUpdateIfFalsy(h, map, key, getValue) ==
    IF Truthy(Map_get(h[map], key))
    THEN [heap |-> h, ret |-> Map_get(h[map], key), calls |-> <<>>]
    ELSE [heap |-> setAndReturn(h, map, key, ApplyGetValue(getValue, key)).heap,
          ret |-> ApplyGetValue(getValue, key),
          calls |-> <<key>>]

_getOrUpdate(h, map, key, getValue) ==
    IF Map_has(h[map], key)
    THEN [heap |-> h, ret |-> Map_get(h[map], key), calls |-> <<>>]
    ELSE [heap |-> setAndReturn(h, map, key, ApplyGetValue(getValue, key)).heap,
          ret |-> setAndReturn(h, map, key, ApplyGetValue(getValue, key)).ret,
          calls |-> <<key>>]

(***************************************************************************)
(* SpecUpdate: a StringMap at address 1, empty at first, under any         *)
(* sequence of _getOrUpdate, delete and clear.  hist holds the keys        *)
(* getValue was invoked with since they were last deleted or cleared.      *)
(***************************************************************************)
UpdateKeys == {"a", "toString", "__proto__"}

UpdateCall(op, key, getValue, ret, calls) ==
    [op |-> op, key |-> key, getValue |-> getValue, ret |-> ret, calls |-> calls]

InitUpdate ==
    /\ usingNativeMaps \in BOOLEAN
    /\ fullyFeaturedMaps = usingNativeMaps
    /\ heap = <<StringMap_new(usingNativeMaps)>>
    /\ last = UpdateCall("new", Undefined, "", Undefined, <<>>)
    /\ hist = {}

GetOrUpdate(k, getValue) ==
    /\ LET r == _getOrUpdate(heap, 1, Str(k), getValue)
       IN  /\ heap' = r.heap
           /\ last' = UpdateCall("_getOrUpdate", Str(k), getValue, r.ret, r.calls)
           /\ hist' = hist \cup {r.calls[i] : i \in 1..Len(r.calls)}
    /\ UNCHANGED probe

UpdateDelete(k) ==
    /\ heap' = [heap EXCEPT ![1] = Map_delete(heap[1], Str(k))]
    /\ last' = UpdateCall("delete", Str(k), "", Undefined, <<>>)
    /\ hist' = hist \ {Str(k)}
    /\ UNCHANGED probe

UpdateClear ==
    /\ heap' = [heap EXCEPT ![1] = Map_clear(heap[1])]
    /\ last' = UpdateCall("clear", Undefined, "", Undefined, <<>>)
    /\ hist' = {}
    /\ UNCHANGED probe

NextUpdate ==
    \/ \E k \in UpdateKeys, getValue \in GetValues : GetOrUpdate(k, getValue)
    \/ \E k \in UpdateKeys : UpdateDelete(k)
    \/ UpdateClear

SpecUpdate == InitUpdate /\ [][NextUpdate]_vars

(***************************************************************************)
(* C13: a _getOrUpdate(map, key, getValue) step on a map that has key      *)
(* returns the stored value, undefined included, without invoking getValue *)
(* and leaves the map as it was; on a map without key it invokes           *)
(* getValue(key) exactly once, stores the result under key and returns it, *)
(* the other keys unchanged.  getValue is not invoked for a key it was     *)
(* invoked for since that key was last deleted or cleared, and no step     *)
(* overwrites a stored value.                                              *)
(***************************************************************************)
C13_GetOrUpdateOnce ==
    [][last'.op = "_getOrUpdate" =>
          LET k == last'.key
          IN  /\ IF Map_has(heap[1], k)
                 THEN /\ last'.ret = Map_get(heap[1], k)
                      /\ last'.calls = <<>>
                      /\ heap' = heap
                 ELSE /\ last'.calls = <<k>>
                      /\ last'.ret = ApplyGetValue(last'.getValue, k)
                      /\ Map_has(heap'[1], k)
                      /\ Map_get(heap'[1], k) = last'.ret
                      /\ \A o \in UpdateKeys \ {k.val} :
                            /\ Map_has(heap'[1], Str(o)) = Map_has(heap[1], Str(o))
                            /\ Map_get(heap'[1], Str(o)) = Map_get(heap[1], Str(o))
              /\ \A i \in 1..Len(last'.calls) : last'.calls[i] \notin hist
              /\ \A o \in UpdateKeys :
                    Map_has(heap[1], Str(o)) =>
                        /\ Map_has(heap'[1], Str(o))
                        /\ Map_get(heap'[1], Str(o)) = Map_get(heap[1], Str(o))]_vars

\* _getOrUpdate(m, "a", toTwo) on a map where "a" was stored as undefined by an
\* earlier _getOrUpdate: undefined is returned and getValue is not invoked
C13_Witness ==
    /\ last.op = "_getOrUpdate" /\ last.key = Str("a") /\ last.getValue = "toTwo"
    /\ last.calls = <<>>
    /\ last.ret = Undefined
    /\ Str("a") \in hist
    /\ Map_has(heap[1], Str("a"))
    /\ Map_get(heap[1], Str("__proto__")) = Num(1)

(***************************************************************************)
(* sortInV8ObjectInsertionOrder.  A string is the sequence of its          *)
(* characters; an element of values is a record whose key field is what    *)
(* toKey returns for it and whose id field tells it from the other         *)
(* elements.                                                               *)
(***************************************************************************)
Digits == {"0", "1", "2", "3", "4", "5", "6", "7", "8", "9"}

DigitValue(c) ==
    CASE c = "0" -> 0 [] c = "1" -> 1 [] c = "2" -> 2 [] c = "3" -> 3 [] c = "4" -> 4
      [] c = "5" -> 5 [] c = "6" -> 6 [] c = "7" -> 7 [] c = "8" -> 8 [] c = "9" -> 9

looksLikeNaturalAnyDigits(key) ==
    /\ Len(key) >= 1
    /\ \A i \in 1..Len(key) : key[i] \in Digits

\* /^(0|([1-9]\d*))$/.test(key)
looksLikeNatural(key) ==
    \/ key = <<"0">>
    \/ /\ Len(key) >= 1
       /\ key[1] \in Digits \ {"0"}
       /\ \A i \in 2..Len(key) : key[i] \in Digits

\* parseInt(key, 10): the number the leading digits of key write, NaN without
\* a leading digit
RECURSIVE ParseDigits(_, _)
ParseDigits(key, n) ==
    IF key = <<>> \/ Head(key) \notin Digits THEN n
    ELSE ParseDigits(Tail(key), 10 * n + DigitValue(Head(key)))

parseInt(key) ==
    IF key = <<>> \/ Head(key) \notin Digits THEN NaN ELSE Num(ParseDigits(key, 0))

toKey(value) == value.key

toInt(value) == parseInt(toKey(value))

\* (a, b) => toInt(a) - toInt(b), as the sign of the difference; NaN counts
\* as 0 in a sort
CompareFn(a, b) ==
    IF toInt(a) = NaN \/ toInt(b) = NaN THEN 0
    ELSE IF toInt(a).val < toInt(b).val THEN -1
    ELSE IF toInt(a).val > toInt(b).val THEN 1
    ELSE 0

\* The places where x can go into a sorted array: after what compares lower,
\* before what compares higher, anywhere among what compares equal.
InsertSorted(sorted, x) ==
    {SubSeq(sorted, 1, p) \o <<x>> \o SubSeq(sorted, p + 1, Len(sorted)) :
        p \in {q \in 0..Len(sorted) :
                 /\ \A i \in 1..q : CompareFn(sorted[i], x) <= 0
                 /\ \A i \in (q + 1)..Len(sorted) : CompareFn(x, sorted[i]) <= 0}}

\* Array.prototype.sort(comparefn): what the array may hold afterwards.  The
\* elements are in the order of comparefn; the order of elements that compare
\* equal is the host's choice (the sort need not be stable).
RECURSIVE Array_sort(_)
Array_sort(array) ==
    IF array = <<>> THEN {<<>>}
    ELSE UNION {InsertSorted(s, array[Len(array)]) :
                  s \in Array_sort(SubSeq(array, 1, Len(array) - 1))}

\* the elements of values that do (natural = TRUE) or do not look like a
\* natural, in the order of values
RECURSIVE Partition(_, _)
Partition(values, natural) ==
    IF values = <<>> THEN <<>>
    ELSE (IF looksLikeNatural(toKey(Head(values))) = natural THEN <<Head(values)>> ELSE <<>>)
         \o Partition(Tail(values), natural)

\* what sortInV8ObjectInsertionOrder(values, toKey) may return
sortInV8ObjectInsertionOrder(values) ==
    LET naturals == Partition(values, TRUE)
        everythingElse == Partition(values, FALSE)
    IN  {sorted \o everythingElse : sorted \in Array_sort(naturals)}

(***************************************************************************)
(* SpecSort: an array of up to MaxSortLen elements at address 1, given to  *)
(* sortInV8ObjectInsertionOrder.                                           *)
(***************************************************************************)
MaxSortLen == 5     \* length of values

SortKeys == {<<"0">>, <<"1">>, <<"2">>, <<"1", "0">>, <<"0", "8">>, <<"x">>}

SortCall(op, ret) == [op |-> op, ret |-> ret]

InitSort ==
    /\ usingNativeMaps = FALSE
    /\ fullyFeaturedMaps = FALSE
    /\ \E keys \in SeqsUpTo(SortKeys, MaxSortLen) :
          heap = <<ArrayOf([i \in 1..Len(keys) |-> [id |-> i, key |-> keys[i]]])>>
    /\ last = SortCall("new", <<>>)
    /\ hist = {}

Sort ==
    /\ last.op = "new"
    /\ \E result \in sortInV8ObjectInsertionOrder(heap[1].elems) :
          last' = SortCall("sortInV8ObjectInsertionOrder", result)
    /\ UNCHANGED <<heap, hist, probe>>

NextSort == Sort

SpecSort == InitSort /\ [][NextSort]_vars

\* "0", or a nonzero digit followed by digits
IsNaturalKey(key) ==
    /\ Len(key) >= 1
    /\ \A i \in 1..Len(key) : key[i] \in Digits
    /\ key[1] = "0" => Len(key) = 1

\* the keys of a sequence of elements
KeySeq(values) == [i \in 1..Len(values) |-> values[i].key]

(***************************************************************************)
(* C14: what sortInV8ObjectInsertionOrder(values, toKey) returns is a      *)
(* rearrangement of values; every element with a natural key comes before  *)
(* every element without; the elements with natural keys are in            *)
(* non-decreasing order of the numbers their keys write; the others are in *)
(* the order they have in values; and values itself is not changed.        *)
(***************************************************************************)
C14_NaturalsFirstSorted ==
    last.op = "sortInV8ObjectInsertionOrder" =>
        LET values == heap[1].elems
            ret == last.ret
        IN  /\ Len(ret) = Len(values)
            /\ {ret[i] : i \in 1..Len(ret)} = {values[i] : i \in 1..Len(values)}
            /\ \A i \in 1..Len(values) : values[i].id = i
            /\ \A i, j \in 1..Len(ret) :
                  i < j =>
                     /\ IsNaturalKey(ret[j].key) => IsNaturalKey(ret[i].key)
                     /\ (IsNaturalKey(ret[i].key) /\ IsNaturalKey(ret[j].key)) =>
                            ParseDigits(ret[i].key, 0) <= ParseDigits(ret[j].key, 0)
                     /\ (~IsNaturalKey(ret[i].key) /\ ~IsNaturalKey(ret[j].key)) =>
                            ret[i].id < ret[j].id

\* ["08", "2", "0", "x", "1"] gives ["0", "1", "2", "08", "x"]
C14_Witness ==
    /\ last.op = "sortInV8ObjectInsertionOrder"
    /\ KeySeq(heap[1].elems) = <<<<"0", "8">>, <<"2">>, <<"0">>, <<"x">>, <<"1">>>>
    /\ KeySeq(last.ret) = <<<<"0">>, <<"1">>, <<"2">>, <<"0", "8">>, <<"x">>>>

(***************************************************************************)
(* C15: in what sortInV8ObjectInsertionOrder returns, two elements with    *)
(* the same natural key are in the order they have in values.              *)
(***************************************************************************)
C15_EqualNaturalsKeepOrder ==
    last.op = "sortInV8ObjectInsertionOrder" =>
        \A i, j \in 1..Len(last.ret) :
            (i < j /\ IsNaturalKey(last.ret[i].key) /\ last.ret[i].key = last.ret[j].key) =>
                last.ret[i].id < last.ret[j].id

(***************************************************************************)
(* findInMap and someValueInMap.  The callback f of findInMap is given as  *)
(* the function from the entries of the map to what f returns for them.    *)
(***************************************************************************)
\* while (true) { ...; const result = f(value, key); if (result !== undefined) return result; }
RECURSIVE findInIterator(_, _, _)
findInIterator(iter, f, i) ==
    IF i > Len(iter) THEN [ret |-> Undefined, calls |-> iter]
    ELSE IF ~StrictEquals(f[iter[i]], Undefined)
         THEN [ret |-> f[iter[i]], calls |-> SubSeq(iter, 1, i)]
    ELSE findInIterator(iter, f, i + 1)

findInForEachLastWins(entries, f, i, result, calls) ==
    LET defined == {j \in 1..Len(entries) : ~StrictEquals(f[entries[j]], Undefined)}
    IN  [ret |-> IF defined = {} THEN Undefined
                 ELSE f[entries[CHOOSE j \in defined : \A o \in defined : o <= j]],
         calls |-> entries]

\* map.forEach((value, key) => { if (result === undefined) result = f(value, key); })
RECURSIVE findInForEach(_, _, _, _, _)
findInForEach(entries, f, i, result, calls) ==
    IF i > Len(entries) THEN [ret |-> result, calls |-> calls]
    ELSE IF StrictEquals(result, Undefined)
         THEN findInForEach(entries, f, i + 1, f[entries[i]], Append(calls, entries[i]))
    ELSE findInForEach(entries, f, i + 1, result, calls)

\* findInMap (_find in the earlier revision)
findInMap(map, f, fullyFeatured) ==
    IF fullyFeatured
    THEN findInIterator(Map_entries(map), f, 1)
    ELSE findInForEach(Map_forEach(map), f, 1, Undefined, <<>>)

\* values() of a fully-featured map
Map_values(m) == [i \in 1..Len(m.entries) |-> m.entries[i].value]

\* a predicate of the value, called with (key, value)
OfValue(map, predicate) ==
    LET entries == Map_forEach(map)
    IN  {entries[i] : i \in {j \in 1..Len(entries) : entries[j].value \in predicate}}

\* someValueInMap (_someValue): values() where fully featured, else someInMap
\* with (key, value) => predicate(value)
someValueInMap(map, predicate, fullyFeatured) ==
    IF fullyFeatured
    THEN someInIterator(Map_values(map), predicate)
    ELSE someInMap(map, OfValue(map, predicate), FALSE)

(***************************************************************************)
(* SpecSearch: a StringMap at address 1 and one call of an early-exit      *)
(* search function on it, under the strategy the host selects.             *)
(***************************************************************************)
SearchKeys == {"a", "b", "toString"}
SearchValues == {Undefined, Num(1)}
FindResults == {Undefined, Null, Num(2)}

SearchEntryLists ==
    {es \in SeqsUpTo(SearchKeys \X SearchValues, Cardinality(SearchKeys)) : DistinctKeys(es)}

SearchCall(op, callback, ret, calls) ==
    [op |-> op, callback |-> callback, ret |-> ret, calls |-> calls]

InitSearch ==
    /\ usingNativeMaps \in BOOLEAN
    /\ fullyFeaturedMaps \in BOOLEAN
    /\ fullyFeaturedMaps => usingNativeMaps
    /\ \E es \in SearchEntryLists : heap = <<SetAll(StringMap_new(usingNativeMaps), es)>>
    /\ last = SearchCall("new", {}, Undefined, <<>>)
    /\ hist = {}

FindInMap ==
    /\ last.op = "new"
    /\ \E f \in [EntriesOf(heap[1]) -> FindResults] :
          LET r == findInMap(heap[1], f, fullyFeaturedMaps)
          IN  last' = SearchCall("findInMap", f, r.ret, r.calls)
    /\ UNCHANGED <<heap, hist, probe>>

SomeInMap ==
    /\ last.op = "new"
    /\ \E predicate \in SUBSET EntriesOf(heap[1]) :
          LET r == someInMap(heap[1], predicate, fullyFeaturedMaps)
          IN  last' = SearchCall("someInMap", predicate, Bool(r.ret), r.calls)
    /\ UNCHANGED <<heap, hist, probe>>

SomeKeyInMap ==
    /\ last.op = "new"
    /\ \E predicate \in SUBSET {Str(k) : k \in SearchKeys} :
          LET r == someKeyInMap(heap[1], predicate, fullyFeaturedMaps)
          IN  last' = SearchCall("someKeyInMap", predicate, Bool(r.ret), r.calls)
    /\ UNCHANGED <<heap, hist, probe>>

SomeValueInMap ==
    /\ last.op = "new"
    /\ \E predicate \in SUBSET SearchValues :
          LET r == someValueInMap(heap[1], predicate, fullyFeaturedMaps)
          IN  last' = SearchCall("someValueInMap", predicate, Bool(r.ret), r.calls)
    /\ UNCHANGED <<heap, hist, probe>>

NextSearch == FindInMap \/ SomeInMap \/ SomeKeyInMap \/ SomeValueInMap

SpecSearch == InitSearch /\ [][NextSearch]_vars

\* The traversal up to and including the first item that satisfies; all of it
\* where none does.
UpToFirst(iter, satisfying) ==
    IF \E i \in 1..Len(iter) : iter[i] \in satisfying
    THEN SubSeq(iter, 1, CHOOSE i \in 1..Len(iter) :
                            /\ iter[i] \in satisfying
                            /\ \A j \in 1..(i - 1) : iter[j] \notin satisfying)
    ELSE iter

\* what the last call returns and invokes its callback on, under a strategy
SearchUnder(fullyFeatured) ==
    CASE last.op = "findInMap" -> findInMap(heap[1], last.callback, fullyFeatured)
      [] last.op = "someInMap" -> someInMap(heap[1], last.callback, fullyFeatured)
      [] last.op = "someKeyInMap" -> someKeyInMap(heap[1], last.callback, fullyFeatured)
      [] last.op = "someValueInMap" -> someValueInMap(heap[1], last.callback, fullyFeatured)

(***************************************************************************)
(* C16: findInMap returns what f returns for the first entry in traversal  *)
(* order for which that is not undefined, and undefined if there is none;  *)
(* someInMap, someKeyInMap and someValueInMap return true exactly when the *)
(* predicate holds of an entry, a key, a value of the map.  On a native    *)
(* map the iterator strategy and the forEach strategy return the same, and *)
(* under the iterator strategy the callback is invoked on the traversal up *)
(* to the first satisfying item and on nothing after it.                   *)
(***************************************************************************)
C16_SearchStrategiesAgree ==
    last.op # "new" =>
        LET map == heap[1]
            entries == Map_forEach(map)
            defined == {e \in EntriesOf(map) : last.callback[e] # Undefined}
        IN  /\ last.op = "findInMap" =>
                  /\ last.ret = (IF defined = {} THEN Undefined
                                 ELSE last.callback[UpToFirst(entries, defined)
                                                     [Len(UpToFirst(entries, defined))]])
                  /\ fullyFeaturedMaps => last.calls = UpToFirst(entries, defined)
            /\ last.op = "someInMap" =>
                  /\ last.ret = Bool(\E e \in EntriesOf(map) : e \in last.callback)
                  /\ fullyFeaturedMaps => last.calls = UpToFirst(entries, last.callback)
            /\ last.op = "someKeyInMap" =>
                  /\ last.ret = Bool(\E e \in EntriesOf(map) : e.key \in last.callback)
                  /\ fullyFeaturedMaps =>
                        last.calls = UpToFirst([i \in 1..Len(entries) |-> entries[i].key],
                                               last.callback)
            /\ last.op = "someValueInMap" =>
                  /\ last.ret = Bool(\E e \in EntriesOf(map) : e.value \in last.callback)
                  /\ fullyFeaturedMaps =>
                        last.calls = UpToFirst([i \in 1..Len(entries) |-> entries[i].value],
                                               last.callback)
            /\ map.class = "Map" => SearchUnder(TRUE).ret = SearchUnder(FALSE).ret

\* findInMap on a fully-featured map of three entries with f returning null for
\* the second and 2 for the third: null is returned and f is not invoked on
\* the third entry
C16_Witness ==
    /\ last.op = "findInMap" /\ fullyFeaturedMaps
    /\ Len(Map_forEach(heap[1])) = 3
    /\ last.callback[Map_forEach(heap[1])[1]] = Undefined
    /\ last.callback[Map_forEach(heap[1])[2]] = Null
    /\ last.callback[Map_forEach(heap[1])[3]] = Num(2)
    /\ last.ret = Null
    /\ Len(last.calls) = 2

(***************************************************************************)
(* _eachAndBreakIfReturningTrue.  In dataStructures.ts it is someInMap     *)
(* under another name; the earlier revision has a function of its own,     *)
(* which returns nothing.  The action is given by the set of entries on    *)
(* which it returns true.                                                  *)
(***************************************************************************)
\* the earlier revision: under the iterator strategy f(key, value) is called
\* for every entry and what it returns is not looked at; under forEach
\* didBreak = didBreak || f(key, value)
_eachAndBreakIfReturningTrue(map, f, fullyFeatured) ==
    IF fullyFeatured
    THEN [ret |-> Undefined, calls |-> Map_entries(map)]
    ELSE [ret |-> Undefined,
          calls |-> someInForEach(Map_forEach(map), f, 1, FALSE, <<>>).calls]

(***************************************************************************)
(* SpecEach: a StringMap at address 1 and one call of                      *)
(* _eachAndBreakIfReturningTrue on it, of either revision, under the       *)
(* strategy the host selects.                                              *)
(***************************************************************************)
EachAndBreakIfReturningTrue ==
    /\ last.op = "new"
    /\ \E action \in SUBSET EntriesOf(heap[1]) :
          LET r == someInMap(heap[1], action, fullyFeaturedMaps)
          IN  last' = SearchCall("_eachAndBreakIfReturningTrue", action, Bool(r.ret), r.calls)
    /\ UNCHANGED <<heap, hist, probe>>

EachAndBreakIfReturningTrueEarlier ==
    /\ last.op = "new"
    /\ \E action \in SUBSET EntriesOf(heap[1]) :
          LET r == _eachAndBreakIfReturningTrue(heap[1], action, fullyFeaturedMaps)
          IN  last' = SearchCall("_eachAndBreakIfReturningTrue (earlier)", action,
                                 r.ret, r.calls)
    /\ UNCHANGED <<heap, hist, probe>>

NextEach == EachAndBreakIfReturningTrue \/ EachAndBreakIfReturningTrueEarlier

SpecEach == InitSearch /\ [][NextEach]_vars

(***************************************************************************)
(* C17 as stated: under the forEach strategy _eachAndBreakIfReturningTrue  *)
(* invokes the action on every entry of the map, the entries after the     *)
(* first one for which it returned true included.                          *)
(***************************************************************************)
C17_FallbackInvokesOnEveryEntry ==
    (last.op # "new" /\ ~fullyFeaturedMaps) => last.calls = Map_forEach(heap[1])

(***************************************************************************)
(* C17 amended: under the forEach strategy _eachAndBreakIfReturningTrue,   *)
(* in both revisions, invokes the action on the entries in traversal order *)
(* up to and including the first one for which it returns true, and on no  *)
(* entry after that one (on every entry where it returns true for none).   *)
(* The action is invoked on every entry regardless of what it returns only *)
(* under the iterator strategy of the earlier revision.                    *)
(***************************************************************************)
C17_FallbackStopsInvokingAfterTrue ==
    last.op # "new" =>
        /\ ~fullyFeaturedMaps => last.calls = UpToFirst(Map_forEach(heap[1]), last.callback)
        /\ (fullyFeaturedMaps /\ last.op = "_eachAndBreakIfReturningTrue (earlier)") =>
              last.calls = Map_forEach(heap[1])
        /\ (fullyFeaturedMaps /\ last.op = "_eachAndBreakIfReturningTrue") =>
              last.calls = UpToFirst(Map_forEach(heap[1]), last.callback)

\* the forEach strategy on a fallback map of three entries, with an action
\* returning true for the second and the third: it is invoked on two entries
C17_Witness ==
    /\ last.op = "_eachAndBreakIfReturningTrue (earlier)"
    /\ ~fullyFeaturedMaps /\ ~usingNativeMaps
    /\ Len(Map_forEach(heap[1])) = 3
    /\ Map_forEach(heap[1])[1] \notin last.callback
    /\ Map_forEach(heap[1])[2] \in last.callback
    /\ Map_forEach(heap[1])[3] \in last.callback
    /\ Len(last.calls) = 2

(***************************************************************************)
(* C23: _eachAndBreakIfReturningTrue behaves the same under both           *)
(* strategies: under the iterator strategy as well as under forEach the    *)
(* action is invoked on the entries up to and including the first one for  *)
(* which it returns true, and on no entry after that one.                  *)
(***************************************************************************)
C23_BreaksUnderBothStrategies ==
    last.op # "new" => last.calls = UpToFirst(Map_forEach(heap[1]), last.callback)

(***************************************************************************)
(* Traversals of the keys.  Each returns the keys handed to the action, in *)
(* order.                                                                  *)
(***************************************************************************)
\* forEachKeyInMap (_eachKey in the earlier revision): keys() where the maps
\* are fully featured, else forEach with (_value, key) => action(key)
forEachKeyInMap(map, fullyFeatured) ==
    IF fullyFeatured THEN Map_keys(map)
    ELSE [i \in 1..Len(Map_forEach(map)) |-> Map_forEach(map)[i].key]

\* _ownKeys: the array of the keys forEachKeyInMap hands over
_ownKeys(map, fullyFeatured) == forEachKeyInMap(map, fullyFeatured)

(***************************************************************************)
(* SpecVisit: a StringMap at address 1, empty at first, under any sequence *)
(* of set, delete and clear, traversed by forEach, forEachKeyInMap and     *)
(* _ownKeys.                                                               *)
(***************************************************************************)
VisitValues == {Undefined, Num(1)}

InitVisit ==
    /\ usingNativeMaps \in BOOLEAN
    /\ fullyFeaturedMaps \in BOOLEAN
    /\ fullyFeaturedMaps => usingNativeMaps
    /\ heap = <<StringMap_new(usingNativeMaps)>>
    /\ last = NoCall
    /\ hist = {}

VisitClear ==
    /\ heap' = [heap EXCEPT ![1] = Map_clear(heap[1])]
    /\ last' = Call("clear", Undefined, Undefined, Undefined, <<>>, FALSE, FALSE)
    /\ UNCHANGED <<hist, probe>>

ForEachKeyInMap ==
    /\ last' = Call("forEachKeyInMap", Undefined, Undefined, Undefined,
                    forEachKeyInMap(heap[1], fullyFeaturedMaps), FALSE, FALSE)
    /\ UNCHANGED <<heap, hist, probe>>

OwnKeys ==
    /\ last' = Call("_ownKeys", Undefined, Undefined,
                    _ownKeys(heap[1], fullyFeaturedMaps),
                    _ownKeys(heap[1], fullyFeaturedMaps), FALSE, FALSE)
    /\ UNCHANGED <<heap, hist, probe>>

NextVisit ==
    \/ \E k \in StringKeys, v \in VisitValues : Set(Str(k), v)
    \/ \E k \in StringKeys : Delete(Str(k))
    \/ VisitClear
    \/ ForEach
    \/ ForEachKeyInMap
    \/ OwnKeys

SpecVisit == InitVisit /\ [][NextVisit]_vars

\* no item occurs twice in a sequence
NoneTwice(visited) == \A i, j \in 1..Len(visited) : visited[i] = visited[j] => i = j

(***************************************************************************)
(* C18: forEach on a StringMap hands its action every key k with has(k)    *)
(* true exactly once, paired with get(k), and nothing else;                *)
(* forEachKeyInMap and _ownKeys hand over, and return, every such key      *)
(* exactly once and nothing else.                                          *)
(***************************************************************************)
C18_VisitsEveryEntryOnce ==
    LET present == {Str(k) : k \in {s \in StringKeys : Map_has(heap[1], Str(s))}}
    IN  /\ last.op = "forEach" =>
              /\ NoneTwice([i \in 1..Len(last.visited) |-> last.visited[i].key])
              /\ {last.visited[i].key : i \in 1..Len(last.visited)} = present
              /\ \A i \in 1..Len(last.visited) :
                    last.visited[i].value = Map_get(heap[1], last.visited[i].key)
        /\ last.op \in {"forEachKeyInMap", "_ownKeys"} =>
              /\ NoneTwice(last.visited)
              /\ {last.visited[i] : i \in 1..Len(last.visited)} = present
        /\ last.op = "_ownKeys" => last.ret = last.visited

\* forEach on a fallback map that has all three keys, one with the value
\* undefined
C18_Witness ==
    /\ last.op = "forEach"
    /\ heap[1].class = "ShimStringMap"
    /\ Len(last.visited) = 3
    /\ \E i \in 1..3 : last.visited[i].key = Str("__proto__")
    /\ \E i \in 1..3 : last.visited[i].value = Undefined

(***************************************************************************)
(* copySetValuesFromTo, and SpecCopy: a source at address 1 and a target   *)
(* at address 2, two StringMaps or two fallback StringSets, and one call   *)
(* of copyMapPropertiesFromTo or copySetValuesFromTo.                      *)
(***************************************************************************)
\* target.add(value) for each value forEach hands over
RECURSIVE AddAll(_, _)
AddAll(target, values) ==
    IF values = <<>> THEN target
    ELSE AddAll(Set_add(target, Head(values)), Tail(values))

copySetValuesFromTo(h, source, target) ==
    [heap |-> [h EXCEPT ![target] = AddAll(h[target], Set_forEach(h[source]))],
     ret |-> Undefined]

CopyValues == {Undefined, Num(1), Num(2)}

InitCopy ==
    /\ usingNativeMaps \in BOOLEAN
    /\ fullyFeaturedMaps = usingNativeMaps
    /\ \/ \E e1, e2 \in EntryLists(CopyValues) :
             heap = <<SetAll(StringMap_new(usingNativeMaps), e1),
                      SetAll(StringMap_new(usingNativeMaps), e2)>>
       \/ /\ ~usingNativeMaps
          /\ \E s \in {ShimSet_new, ShimStringSet_new} :
                \E v1, v2 \in SeqsUpTo(SetValues, 2) :
                   heap = <<AddAll(s, v1), AddAll(s, v2)>>
    /\ last = NoCall
    /\ hist = {}

CopyMapPropertiesFromTo ==
    /\ last.op = "new"
    /\ IsMap(heap[1])
    /\ heap' = copyMapPropertiesFromTo(heap, 1, 2).heap
    /\ last' = Call("copyMapPropertiesFromTo", Undefined, Undefined, Undefined,
                    <<>>, FALSE, FALSE)
    /\ UNCHANGED <<hist, probe>>

CopySetValuesFromTo ==
    /\ last.op = "new"
    /\ ~IsMap(heap[1])
    /\ heap' = copySetValuesFromTo(heap, 1, 2).heap
    /\ last' = Call("copySetValuesFromTo", Undefined, Undefined, Undefined,
                    <<>>, FALSE, FALSE)
    /\ UNCHANGED <<hist, probe>>

NextCopy == CopyMapPropertiesFromTo \/ CopySetValuesFromTo

SpecCopy == InitCopy /\ [][NextCopy]_vars

(***************************************************************************)
(* C19: after copyMapPropertiesFromTo(source, target) the target has every *)
(* key of the source with the value the source has for it, every other key *)
(* it had with the value it had, and no further key; after                 *)
(* copySetValuesFromTo(source, target) the members of the target are its   *)
(* earlier members and those of the source.  The source is unchanged.      *)
(***************************************************************************)
C19_CopyAddsSourceToTarget ==
    [][/\ last'.op = "copyMapPropertiesFromTo" =>
            /\ \A k \in EqualKeys :
                  IF Map_has(heap[1], Str(k))
                  THEN /\ Map_has(heap'[2], Str(k))
                       /\ Map_get(heap'[2], Str(k)) = Map_get(heap[1], Str(k))
                  ELSE /\ Map_has(heap'[2], Str(k)) = Map_has(heap[2], Str(k))
                       /\ Map_get(heap'[2], Str(k)) = Map_get(heap[2], Str(k))
            /\ KeySetOf(heap'[2]) = KeySetOf(heap[2]) \cup KeySetOf(heap[1])
            /\ heap'[1] = heap[1]
       /\ last'.op = "copySetValuesFromTo" =>
            /\ Members(heap'[2]) = Members(heap[2]) \cup Members(heap[1])
            /\ {Set_forEach(heap'[2])[i] : i \in 1..Len(Set_forEach(heap'[2]))}
                  = Members(heap'[2])
            /\ heap'[1] = heap[1]]_vars

\* the source has "a" with 2 and the target had "a" with 1 and "toString":
\* the target now has "a" with 2 and still has "toString"
C19_Witness ==
    /\ last.op = "copyMapPropertiesFromTo"
    /\ KeySetOf(heap[1]) = {Str("a")}
    /\ Map_get(heap[1], Str("a")) = Num(2)
    /\ Map_forEach(heap[2]) = <<[key |-> Str("a"), value |-> Num(2)],
                                [key |-> Str("toString"), value |-> Num(1)]>>

(***************************************************************************)
(* arrayToMap.  makeKey is given as the function from the elements to the  *)
(* keys it returns; makeValue is given or not, and where given is the      *)
(* function from the elements to the values it returns.                    *)
(***************************************************************************)
NoMakeValue == [given |-> FALSE, fn |-> <<>>]

\* makeValue ? makeValue(value) : value
ValueFor(makeValue, value) == IF makeValue.given THEN makeValue.fn[value] ELSE value

RECURSIVE SetFromArrayFirstWins(_, _, _, _)
SetFromArrayFirstWins(result, array, makeKey, makeValue) ==
    IF array = <<>> THEN result
    ELSE SetFromArrayFirstWins(
             IF Map_has(result, Str(makeKey[Head(array)])) THEN result
             ELSE Map_set(result, Str(makeKey[Head(array)]),
                          ValueFor(makeValue, Head(array))),
             Tail(array), makeKey, makeValue)

\* for (const value of array) result.set(makeKey(value), ...)
RECURSIVE SetFromArray(_, _, _, _)
SetFromArray(result, array, makeKey, makeValue) ==
    IF array = <<>> THEN result
    ELSE SetFromArray(Map_set(result, Str(makeKey[Head(array)]),
                              ValueFor(makeValue, Head(array))),
                      Tail(array), makeKey, makeValue)

arrayToMap(h, array, makeKey, makeValue, native) ==
    [heap |-> Allocate(h, SetFromArray(StringMap_new(native), h[array].elems,
                                       makeKey, makeValue)),
     ret |-> Ref(NewAddress(h))]

(***************************************************************************)
(* SpecArray: an array of up to MaxArrayLen elements at address 1 and one  *)
(* call of arrayToMap on it.                                               *)
(***************************************************************************)
MaxArrayLen == 3    \* length of array

ArrayElements == {Num(1), Num(2), Num(3)}
ArrayKeys == {"a", "__proto__"}
MadeValues == {Undefined, Num(7)}

ArrayCall(op, makeKey, makeValue, ret) ==
    [op |-> op, makeKey |-> makeKey, makeValue |-> makeValue, ret |-> ret]

InitArray ==
    /\ usingNativeMaps \in BOOLEAN
    /\ fullyFeaturedMaps = usingNativeMaps
    /\ \E array \in SeqsUpTo(ArrayElements, MaxArrayLen) : heap = <<ArrayOf(array)>>
    /\ last = ArrayCall("new", <<>>, NoMakeValue, Undefined)
    /\ hist = {}

ArrayToMap ==
    /\ last.op = "new"
    /\ \E makeKey \in [ArrayElements -> ArrayKeys] :
          \E makeValue \in {NoMakeValue}
                           \cup {[given |-> TRUE, fn |-> f] :
                                    f \in [ArrayElements -> MadeValues]} :
             LET r == arrayToMap(heap, 1, makeKey, makeValue, usingNativeMaps)
             IN  /\ heap' = r.heap
                 /\ last' = ArrayCall("arrayToMap", makeKey, makeValue, r.ret)
    /\ UNCHANGED <<hist, probe>>

NextArray == ArrayToMap

SpecArray == InitArray /\ [][NextArray]_vars

(***************************************************************************)
(* C20: the map arrayToMap(array, makeKey, makeValue?) returns is a new    *)
(* map whose keys are exactly the makeKey(e) of the elements e of array,   *)
(* each mapped to makeValue(e), or to e where makeValue is not given, of   *)
(* the last element e of array with that key; array is not changed.        *)
(***************************************************************************)
C20_ArrayToMapLastWins ==
    [][last'.op = "arrayToMap" =>
          LET array == heap[1].elems
              result == heap'[last'.ret.val]
              LastWith(k) == CHOOSE i \in 1..Len(array) :
                                /\ last'.makeKey[array[i]] = k
                                /\ \A j \in (i + 1)..Len(array) :
                                      last'.makeKey[array[j]] # k
          IN  /\ last'.ret.val \notin DOMAIN heap
              /\ KeySetOf(result) = {Str(last'.makeKey[array[i]]) : i \in 1..Len(array)}
              /\ \A k \in {last'.makeKey[array[i]] : i \in 1..Len(array)} :
                    /\ Map_has(result, Str(k))
                    /\ Map_get(result, Str(k)) = ValueFor(last'.makeValue, array[LastWith(k)])
              /\ heap'[1] = heap[1]]_vars

\* three elements with the same key and no makeValue: the key maps to the
\* third element
C20_Witness ==
    /\ last.op = "arrayToMap" /\ ~last.makeValue.given
    /\ heap[1].elems = <<Num(1), Num(2), Num(3)>>
    /\ \A e \in ArrayElements : last.makeKey[e] = "__proto__"
    /\ Map_forEach(heap[2]) = <<[key |-> Str("__proto__"), value |-> Num(3)]>>

(***************************************************************************)
(* getOwnKeys, assign and extend over records (MapLike objects).           *)
(***************************************************************************)
getOwnKeys(map) == OwnKeysLoop(map)

\* target[key] = source[key] for each of keys in turn
RECURSIVE PutEach(_, _, _)
PutEach(target, source, keys) ==
    IF keys = <<>> THEN target
    ELSE PutEach(PutProperty(target, Head(keys), GetProperty(source, Head(keys))),
                 source, Tail(keys))

\* for (const arg of args) for (const p of getOwnKeys(arg)) t[p] = arg[p]
RECURSIVE AssignEach(_, _, _)
AssignEach(h, t, args) ==
    IF args = <<>> THEN h
    ELSE AssignEach([h EXCEPT ![t].data =
                        PutEach(h[t].data, h[Head(args)].data,
                                getOwnKeys(h[Head(args)].data))],
                    t, Tail(args))

assign(h, t, args) == [heap |-> AssignEach(h, t, args), ret |-> Ref(t)]

extend(h, first, second) ==
    LET fromSecond == PutEach(ObjectLiteral, h[second].data, OwnKeysLoop(h[second].data))
        result == PutEach(fromSecond, h[first].data, OwnKeysLoop(h[first].data))
    IN  [heap |-> Allocate(h, [class |-> "Object", data |-> result]),
         ret |-> Ref(NewAddress(h))]

(***************************************************************************)
(* SpecRecord: three records at the addresses 1, 2 and 3, each written as  *)
(* a literal or made without a prototype and then filled by assignments,   *)
(* and one call of extend(1, 2) or of assign(1, ...).                      *)
(***************************************************************************)
RecordKeys == {"a", "__proto__"}
RecordValues == {Num(1), Num(2), Null}

RecordEntryLists ==
    {es \in SeqsUpTo(RecordKeys \X RecordValues, Cardinality(RecordKeys)) : DistinctKeys(es)}

\* the records: {} or Object.create(null), then obj[key] = value for each entry
Records ==
    {[class |-> "Object", data |-> PutAll(createObject(proto), es)] :
        proto \in {ObjectPrototypeRef, Null}, es \in RecordEntryLists}

RecordCall(op, args, ret) == [op |-> op, args |-> args, ret |-> ret]

InitRecord ==
    /\ usingNativeMaps = FALSE
    /\ fullyFeaturedMaps = FALSE
    /\ \E r1, r2, r3 \in Records : heap = <<r1, r2, r3>>
    /\ last = RecordCall("new", <<>>, Undefined)
    /\ hist = {}

Extend ==
    /\ last.op = "new"
    /\ LET r == extend(heap, 1, 2)
       IN  /\ heap' = r.heap
           /\ last' = RecordCall("extend", <<1, 2>>, r.ret)
    /\ UNCHANGED <<hist, probe>>

Assign(args) ==
    /\ last.op = "new"
    /\ LET r == assign(heap, 1, args)
       IN  /\ heap' = r.heap
           /\ last' = RecordCall("assign", args, r.ret)
    /\ UNCHANGED <<hist, probe>>

NextRecord ==
    \/ Extend
    \/ \E args \in {<<2>>, <<2, 3>>} : Assign(args)

SpecRecord == InitRecord /\ [][NextRecord]_vars

\* the own keys of a record
OwnKeysOf(record) == {k \in RecordKeys : HasOwnProperty(record.data, k)}

\* the last of the sources that has key as an own key
LastWith(h, args, key) ==
    args[CHOOSE i \in 1..Len(args) :
            /\ key \in OwnKeysOf(h[args[i]])
            /\ \A j \in (i + 1)..Len(args) : key \notin OwnKeysOf(h[args[j]])]

(***************************************************************************)
(* C21: extend(first, second) returns a new record whose own keys are the  *)
(* own keys of first and those of second, a key of first with the value    *)
(* first has for it and any other key with the value second has for it;    *)
(* first and second are not changed.                                       *)
(***************************************************************************)
C21_ExtendFirstWins ==
    [][last'.op = "extend" =>
          LET first == heap[1]
              second == heap[2]
              result == heap'[last'.ret.val]
          IN  /\ last'.ret.val \notin DOMAIN heap
              /\ OwnKeysOf(result) = OwnKeysOf(first) \cup OwnKeysOf(second)
              /\ \A k \in OwnKeysOf(first) :
                    GetProperty(result.data, k) = GetProperty(first.data, k)
              /\ \A k \in OwnKeysOf(second) \ OwnKeysOf(first) :
                    GetProperty(result.data, k) = GetProperty(second.data, k)
              /\ heap'[1] = heap[1]
              /\ heap'[2] = heap[2]]_vars

(***************************************************************************)
(* C22: assign(t, arg1, ..., argN) returns t itself; afterwards t has, for *)
(* each key that is an own key of some source, the value of the last       *)
(* source that has it as an own key, and for each of its other keys the    *)
(* value it had; no source is changed.                                     *)
(***************************************************************************)
C22_AssignLastSourceWins ==
    [][last'.op = "assign" =>
          LET args == last'.args
              inSources == UNION {OwnKeysOf(heap[args[i]]) : i \in 1..Len(args)}
          IN  /\ last'.ret = Ref(1)
              /\ \A k \in inSources :
                    GetProperty(heap'[1].data, k)
                       = GetProperty(heap[LastWith(heap, args, k)].data, k)
              /\ \A k \in OwnKeysOf(heap[1]) \ inSources :
                    /\ HasOwnProperty(heap'[1].data, k)
                    /\ GetProperty(heap'[1].data, k) = GetProperty(heap[1].data, k)
              /\ \A a \in 2..3 : heap'[a] = heap[a]]_vars

(***************************************************************************)
(* mapIsEmpty (isEmpty in the earlier revision):                           *)
(* !someKeyInMap(map, () => true)                                          *)
(***************************************************************************)
mapIsEmpty(map, fullyFeatured) ==
    LET always == {e.key : e \in EntriesOf(map)}   \* () => true
    IN  ~someKeyInMap(map, always, fullyFeatured).ret

(***************************************************************************)
(* SpecFallback: a fallback StringMap at address 1, empty at first, under  *)
(* any sequence of set, delete, clear and mapIsEmpty, with keys among the  *)
(* names an ordinary object inherits and the placeholder of                *)
(* createDictionaryModeObject.  hist holds the keys set since the last     *)
(* clear and not deleted since.                                            *)
(***************************************************************************)
FallbackKeys == {"a", "toString", "constructor", "__proto__", "__"}
FallbackValues == {Undefined, Num(1)}

FallbackCall(op, key, value, ret, before) ==
    [op |-> op, key |-> key, value |-> value, ret |-> ret, before |-> before]

InitFallback ==
    /\ usingNativeMaps = FALSE
    /\ fullyFeaturedMaps = FALSE
    /\ heap = <<ShimStringMap_new>>
    /\ last = FallbackCall("new", Undefined, Undefined, Undefined, {})
    /\ hist = {}

FallbackSet(k, v) ==
    /\ heap' = [heap EXCEPT ![1] = ShimStringMap_set(heap[1], k, v)]
    /\ last' = FallbackCall("set", Str(k), v, Undefined, hist)
    /\ hist' = hist \cup {k}
    /\ UNCHANGED probe

FallbackDelete(k) ==
    /\ heap' = [heap EXCEPT ![1] = ShimStringMap_delete(heap[1], k)]
    /\ last' = FallbackCall("delete", Str(k), Undefined, Undefined, hist)
    /\ hist' = hist \ {k}
    /\ UNCHANGED probe

FallbackClear ==
    /\ heap' = [heap EXCEPT ![1] = ShimStringMap_clear(heap[1])]
    /\ last' = FallbackCall("clear", Undefined, Undefined, Undefined, hist)
    /\ hist' = {}
    /\ UNCHANGED probe

MapIsEmpty ==
    /\ last' = FallbackCall("mapIsEmpty", Undefined, Undefined,
                            Bool(mapIsEmpty(heap[1], fullyFeaturedMaps)), hist)
    /\ UNCHANGED <<heap, hist, probe>>

NextFallback ==
    \/ \E k \in FallbackKeys, v \in FallbackValues : FallbackSet(k, v)
    \/ \E k \in FallbackKeys : FallbackDelete(k)
    \/ FallbackClear
    \/ MapIsEmpty

SpecFallback == InitFallback /\ [][NextFallback]_vars

(***************************************************************************)
(* C24: the fallback StringMap exposes only the keys that were set.  A new *)
(* map and a map just cleared has has(k) false and get(k) undefined for    *)
(* every key k, the inherited names and "__" included, and mapIsEmpty is   *)
(* true of it; in every reachable state has(k) is true exactly when k was  *)
(* set since the last clear and not deleted since (and mapIsEmpty tells    *)
(* whether there is such a key); set(k, v) and delete(k) leave has and get *)
(* of every other key as they were.                                        *)
(***************************************************************************)
C24_OnlyAssignedKeys ==
    /\ [](LET map == heap[1]
          IN  /\ last.op \in {"new", "clear"} =>
                    /\ \A k \in FallbackKeys :
                          /\ ~ShimStringMap_has(map, k)
                          /\ ShimStringMap_get(map, k) = Undefined
                    /\ mapIsEmpty(map, fullyFeaturedMaps)
              /\ \A k \in FallbackKeys : (ShimStringMap_has(map, k) <=> k \in hist)
              /\ \A k \in FallbackKeys \ hist : ShimStringMap_get(map, k) = Undefined
              /\ (mapIsEmpty(map, fullyFeaturedMaps) <=> hist = {})
              /\ last.op = "mapIsEmpty" => last.ret = Bool(hist = {}))
    /\ [][last'.op \in {"set", "delete"} =>
             \A k \in FallbackKeys \ {last'.key.val} :
                /\ (ShimStringMap_has(heap'[1], k) <=> ShimStringMap_has(heap[1], k))
                /\ ShimStringMap_get(heap'[1], k) = ShimStringMap_get(heap[1], k)]_vars

\* clear() on a map that held "toString", "__proto__" and "__": no key is left
C24_Witness ==
    /\ last.op = "clear"
    /\ last.before = {"toString", "__proto__", "__"}
    /\ \A k \in FallbackKeys : ~ShimStringMap_has(heap[1], k)
    /\ mapIsEmpty(heap[1], fullyFeaturedMaps)

====
